---- MODULE Spec2Model ----
(***************************************************************************)
(* The Pi-hole reconciling Ansible modules of the repository               *)
(* (clients.py, groups.py, allow_list.py under                              *)
(* src/collections/ansible_collections/sbarbett/pihole/plugins/modules),    *)
(* followed by the command-line scripts of src/scripts.                     *)
(* One behaviour is a sequence of module runs against one remote Pi-hole.   *)
(* A run is: StartRun (connect, fetch), ProcessItem for every desired item, *)
(* the deletions, Exit.  Every remote call may fail; a failing call either  *)
(* raises or comes back as an error-shaped response.  A successful create   *)
(* or update stores exactly the values the request carries.                 *)
(***************************************************************************)
EXTENDS Integers, Sequences, FiniteSets, TLC

VARIABLES
    modname,          \* which module runs: "clients", "groups", "allow_list"
    desired,          \* module.params['clients' | 'groups' | 'lists']
    update_gravity,   \* module.params['update_gravity'] of the current run, set where the run reads it
    remote,           \* the collection held by the Pi-hole: key -> item
    run,              \* number of runs started so far
    check_mode,       \* module.check_mode: the runs are check-mode runs
    pc,               \* position of the current run
    i,                \* index of the next desired item of the loop
    existing_groups,  \* get_existing_groups(): the name -> id registry used for resolution
    existing,         \* existing_clients / existing_groups (groups.py): snapshot of the collection
    to_delete,        \* clients_to_delete / groups_to_delete / lists_to_delete, as item indices
    changed,          \* result['changed']
    records,          \* result['clients'] / result['groups'] / processed_results
    returned,         \* what exit_json / fail_json handed back
    warnings,         \* module.warn calls: one sequence of missing names each
    acts,             \* the decision taken for each processed item (history)
    calls,            \* the mutating calls issued in this run (history)
    faults,           \* remote calls that failed so far, over all runs
    faulted,          \* some remote call failed in the current run
    gravity,          \* how run_gravity ended in the current run ("none": not called)
    prev,             \* the previous run: [clean: a normal run that ended in exit_json with no
                      \* failed call, changed: the changed it returned]
    fetched,          \* how get_existing_groups / get_existing_clients ended in this run (history)
    looked            \* allow_list: how the get_list lookup of each item ended in this run (history)

\* How the current-state lookups of the run ended
lookvars == <<fetched, looked>>

\* The bridge server, seen request by request
VARIABLES
    posts             \* local_vikunja_server: the POSTs handled, each with what it sent (history)

bridgevars == <<posts>>

\* The Nextcloud address book with its one contact
VARIABLES
    nc_card,          \* the vCard stored on the server, line by line (<< >>: no contact)
    nc_card0,         \* the vCard stored before the last update_contact call (history)
    nc_args,          \* the field values of the last update_contact call (history)
    nc_result,        \* what the last create_contact / update_contact call returned
    nc_calls,         \* number of update_contact calls so far
    nc_faults         \* number of requests the server has refused so far

cardvars == <<nc_card, nc_card0, nc_args, nc_result, nc_calls, nc_faults>>

\* transcribe_audio.py: the splitting of one audio file
VARIABLES
    duration,         \* what get_audio_duration returns for the file, in seconds
    segment_time,     \* split_audio's segment_time argument
    overlap,          \* split_audio's overlap argument
    start_time,       \* split_audio's local start_time
    part_num,         \* split_audio's local part_num
    chunks,           \* the chunks created so far, each with its -ss and -t
    apc,              \* where split_audio is: "entry", "loop", "returned", "exit1"
    ffmpeg_faults     \* number of failed ffmpeg runs so far

audiovars == <<duration, segment_time, overlap, start_time, part_num, chunks, apc,
               ffmpeg_faults>>

\* transcribe_audio.py: the main thread in transcribe_chunk and its spinner thread
VARIABLES
    tc_pc,            \* where the main thread is
    done,             \* transcribe_chunk's local `done`, read by spinner()
    sp_pc,            \* where the spinner thread is
    frame,            \* position of the spinner in its cycle of four characters
    req,              \* how the current requests.post ended
    tc_calls,         \* number of transcribe_chunk calls begun
    proc              \* the process: "running" or "exited"

spinvars == <<tc_pc, done, sp_pc, frame, req, tc_calls, proc>>

\* The credential cache file as the file system holds it, the process that
\* writes it and a process of another user
VARIABLES
    pf_script,        \* the script that writes its cache file
    umask,            \* the umask of the writing process
    pf_mode,          \* permission bits of the cache file ("absent": no file)
    pf_content,       \* what the cache file holds: "" or "secret"
    pf_pc,            \* where the writing process is
    obs_who,          \* the other user: "group" (in the owner's group) or "other"
    obs_fd,           \* the other user's process holds the file open for reading
    obs_read,         \* what the other user's process has read from the file
    chmod_faults      \* number of failed file operations so far

permvars == <<pf_script, umask, pf_mode, pf_content, pf_pc, obs_who, obs_fd, obs_read,
              chmod_faults>>

\* The state of the programs that only their own specifications move
latevars == <<bridgevars, cardvars, audiovars, spinvars, permvars>>

\* Everything but the named program's own state
notbridge == <<cardvars, audiovars, spinvars, permvars>>
notcard == <<bridgevars, audiovars, spinvars, permvars>>
notaudio == <<bridgevars, cardvars, spinvars, permvars>>
notspin == <<bridgevars, cardvars, audiovars, permvars>>
notperm == <<bridgevars, cardvars, audiovars, spinvars>>

\* The state of the Pi-hole modules
pivars == <<modname, desired, update_gravity, remote, run, check_mode, pc, i,
            existing_groups, existing, to_delete, changed, records, returned,
            warnings, acts, calls, faults, faulted, gravity, prev, lookvars>>

vars == <<pivars, latevars>>

\* The command-line scripts (src/scripts): one behaviour is one process.
VARIABLES
    script,           \* which script the process runs ("none": a Pi-hole module behaviour)
    spc,              \* position of the process
    arg_value,        \* the credential given on the command line ("" when not given)
    env_value,        \* the credential in the environment variable ("" when unset)
    token,            \* the credential the process settled on ("" while it has none)
    requests,         \* the network requests issued by the process (history)
    exit_code,        \* the exit status (-1 while the process runs)
    sfaults,          \* requests that failed so far
    main_calls,       \* how many times main() was entered
    labels,           \* create_task: the label names parsed from the title
    remote_labels,    \* the labels the Vikunja instance holds
    existing_labels,  \* create_task: what get_all_labels returned
    li,               \* create_task: index of the next label of the loop
    resolved_labels,  \* create_task: the ids collected for the payload
    lookups,          \* create_task: what label_map.get answered for each label (history)
    consulted,        \* the credential sources the process consulted, in order (history)
    op_result,        \* how the operation of the process ended ("none" while it has not)
    cache_file,       \* content of the cached plaintext file under tmp/ (NoFile: no such file)
    vault_line,       \* what `ansible-vault view` prints after the key's colon (NoLine: nothing)
    started,          \* number of processes started so far
    history,          \* the processes that ended before the current one
    command,          \* the subcommand of the process
    uid_known,        \* manage_nextcloud_contacts: the addressbook holds the uid given
    bashrc_value,     \* the credential exported in ~/.bashrc ("" when there is no such line)
    responses,        \* local_vikunja_server: the status codes sent back (history)
    tool_calls,       \* Trac: the operations carried out, each with its XML-RPC calls (history)
    token_file,       \* Google: the credentials pickled in token.pickle (NoCreds: no such file)
    credentials_file, \* Google: credentials.json exists
    creds_calls,      \* Google: the calls of get_creds and how they ended (history)
    params,           \* dhcp_remove_lease: the parameters of the task
    leases,           \* dhcp_remove_lease: the leases the Pi-hole instance holds
    leases0,          \* dhcp_remove_lease: the leases it held when the task began
    dpc,              \* dhcp_remove_lease: position of run_module
    matching_leases,  \* dhcp_remove_lease: the list run_module computed
    remove_calls,     \* dhcp_remove_lease: the addresses remove_lease was called with (history)
    dhcp_exit         \* dhcp_remove_lease: what the module returned

svars == <<script, spc, arg_value, env_value, token, requests, exit_code, sfaults,
           main_calls, labels, remote_labels, existing_labels, li, resolved_labels,
           lookups, consulted, op_result, cache_file, vault_line, started, history,
           command, uid_known, bashrc_value, responses>>

\* The files a process finds and the processes before it
credvars == <<cache_file, vault_line, started, history, command, uid_known>>

\* What only the Trac, Google and DHCP programs use
tracvars == <<tool_calls>>
googlevars == <<token_file, credentials_file, creds_calls>>
dhcpvars == <<params, leases, leases0, dpc, matching_leases, remove_calls, dhcp_exit>>
extvars == <<tracvars, googlevars, dhcpvars>>

\* What only unifi_api_manager.py and local_vikunja_server.py use, and extvars
restvars == <<bashrc_value, responses, extvars>>

others == <<svars, extvars, latevars>>

allvars == <<vars, others>>

----------------------------------------------------------------------------
(* Bounds *)

MaxItems == 2
MaxRuns == 2
MaxFaults == 1
MaxFields == 2
MaxDuration == 6
MaxSegment == 3

----------------------------------------------------------------------------
(* Values *)

None == "None"

Keys == {"a", "b"}

\* An element of a groups list: a name, or (legacy allow_list parameters) an integer id.
GName(s) == [isInt |-> FALSE, id |-> 0, name |-> s]
GId(n) == [isInt |-> TRUE, id |-> n, name |-> ""]

\* str.lower() on the names that occur
Lower(s) == CASE s = "Default" -> "default"
              [] s = "Test" -> "test"
              [] OTHER -> s

\* The groups the Pi-hole holds when clients / allow lists are managed, in
\* the order get_groups() lists them.
RemoteGroups == << [name |-> "Default", id |-> 0], [name |-> "test", id |-> 1] >>

Absent == [exists |-> FALSE, comment |-> None, groups |-> {}, enabled |-> TRUE]
RItem(c, g, e) == [exists |-> TRUE, comment |-> c, groups |-> g, enabled |-> e]

Item(k, s, c, g, e) == [key |-> k, state |-> s, comment |-> c, groups |-> g, enabled |-> e]

Range(s) == {s[n] : n \in 1..Len(s)}

NoReturn == [kind |-> "none", changed |-> FALSE, records |-> << >>]

----------------------------------------------------------------------------
(* Inputs: the desired lists and the remote states a run can start from *)

\* (comment, groups) of the present-state clients tried
ClientFields ==
    { <<None, << >> >>,
      <<"new", << >> >>,
      <<"new", <<GName("default"), GName("test")>> >>,
      <<"new", <<GName("test"), GName("Default")>> >>,
      <<None, <<GName("ghost"), GName("test")>> >> }

ClientItems ==
    {Item("a", "present", v[1], v[2], TRUE) : v \in ClientFields}
    \cup {Item("b", "present", "new", <<GName("Default")>>, TRUE)}
    \cup {Item(k, "absent", None, << >>, TRUE) : k \in Keys}

\* (comment, enabled) of the present-state groups tried
GroupItems ==
    {Item("a", "present", None, << >>, TRUE),
     Item("a", "present", "new", << >>, TRUE),
     Item("a", "present", "new", << >>, FALSE)}
    \cup {Item("b", "present", "new", << >>, TRUE)}
    \cup {Item(k, "absent", None, << >>, TRUE) : k \in Keys}

\* (comment, groups, enabled) of the present-state allow lists tried
ListFields ==
    { <<None, << >>, TRUE>>,
      <<"new", << >>, FALSE>>,
      <<"new", <<GName("default"), GName("test")>>, TRUE>>,
      <<"new", <<GName("test"), GName("Default")>>, TRUE>>,
      <<None, <<GName("ghost"), GName("test")>>, TRUE>> }

ListItems ==
    {Item("a", "present", v[1], v[2], v[3]) : v \in ListFields}
    \cup {Item("b", "present", "new", <<GName("Default")>>, TRUE)}
    \cup {Item(k, "absent", None, << >>, TRUE) : k \in Keys}

\* The legacy single-entry parameters of allow_list: groups may hold integer ids.
LegacyItems ==
    {Item("a", "present", "new", <<GId(1), GName("Default")>>, TRUE),
     Item("a", "present", None, <<GId(1)>>, TRUE)}

ItemsOf(m) == CASE m = "clients" -> ClientItems
                [] m = "groups" -> GroupItems
                [] OTHER -> ListItems

DesiredLists(m) ==
    UNION {[1..n -> ItemsOf(m)] : n \in 1..MaxItems}
    \cup (IF m = "allow_list" THEN {<<x>> : x \in LegacyItems} ELSE {})

InitialItems(m, k) ==
    CASE m = "clients" /\ k = "a" -> {Absent, RItem("old", {0, 1}, TRUE)}
      [] m = "clients" /\ k = "b" -> {Absent, RItem("old", {}, TRUE)}
      [] m = "groups" /\ k = "a" -> {Absent, RItem("old", {}, FALSE)}
      [] m = "groups" /\ k = "b" -> {Absent, RItem(None, {}, TRUE)}
      [] m = "allow_list" /\ k = "a" -> {Absent, RItem("old", {0, 1}, FALSE)}
      [] OTHER -> {Absent, RItem("old", {}, TRUE)}

InitialRemotes(m) == {r \in [Keys -> UNION {InitialItems(m, k) : k \in Keys}] :
                        \A k \in Keys : r[k] \in InitialItems(m, k)}

NoRemote == [k \in Keys |-> Absent]

----------------------------------------------------------------------------
(* Helpers of the modules *)

\* The inner loop of map_groups_to_ids comparing the names as written
RECURSIVE FindGroupExact(_, _, _)
FindGroupExact(name, groups, n) ==
    IF n > Len(groups) THEN -1
    ELSE IF groups[n].name = name THEN groups[n].id
    ELSE FindGroupExact(name, groups, n + 1)

\* The inner loop of map_groups_to_ids: the id of the first group, from
\* position n on, whose name equals `name` ignoring case; -1 when none does.
RECURSIVE FindGroup(_, _, _)
FindGroup(name, groups, n) ==
    IF n > Len(groups) THEN -1
    ELSE IF Lower(groups[n].name) = Lower(name) THEN groups[n].id
    ELSE FindGroup(name, groups, n + 1)

\* map_groups_to_ids leaving its loop at the first name it cannot resolve
RECURSIVE map_groups_to_ids_break(_, _)
map_groups_to_ids_break(group_items, groups) ==
    IF group_items = << >> THEN [ids |-> << >>, missing |-> << >>]
    ELSE LET item == Head(group_items)
             rest == map_groups_to_ids_break(Tail(group_items), groups)
             found == FindGroup(item.name, groups, 1)
         IN  IF item.isInt
             THEN [ids |-> <<item.id>> \o rest.ids, missing |-> rest.missing]
             ELSE IF found >= 0
             THEN [ids |-> <<found>> \o rest.ids, missing |-> rest.missing]
             ELSE [ids |-> << >>, missing |-> <<item.name>>]

\* map_groups_to_ids: the resolved ids, and the names module.warn reports
RECURSIVE map_groups_to_ids(_, _)
map_groups_to_ids(group_items, groups) ==
    IF group_items = << >> THEN [ids |-> << >>, missing |-> << >>]
    ELSE LET item == Head(group_items)
             rest == map_groups_to_ids(Tail(group_items), groups)
             found == FindGroup(item.name, groups, 1)
         IN  IF item.isInt
             THEN [ids |-> <<item.id>> \o rest.ids, missing |-> rest.missing]
             ELSE IF found >= 0
             THEN [ids |-> <<found>> \o rest.ids, missing |-> rest.missing]
             ELSE [ids |-> rest.ids, missing |-> <<item.name>> \o rest.missing]

\* A list comparison in place of the set comparison: the remote lists the
\* ids in ascending order, the desired ids come in the order written.
ClientUpdateNeededOrdered(item, gids, cur) ==
    \/ item.comment # None /\ cur.comment # item.comment
    \/ cur.groups # Range(gids)
    \/ \E n \in 1..(Len(gids) - 1) : gids[n] >= gids[n + 1]

\* clients.py: update_needed
ClientUpdateNeeded(item, gids, cur) ==
    \/ item.comment # None /\ cur.comment # item.comment
    \/ cur.groups # Range(gids)

\* needs_update of allow_list.py comparing the group ids as lists: the
\* remote lists them in ascending order, the desired ids come as written.
ListNeedsUpdateOrdered(item, gids, cur) ==
    \/ item.comment # None /\ cur.comment # item.comment
    \/ gids # << >> /\ (cur.groups # Range(gids)
                           \/ \E n \in 1..(Len(gids) - 1) : gids[n] >= gids[n + 1])
    \/ cur.enabled # item.enabled

\* groups.py: update_needed
GroupUpdateNeeded(item, cur) ==
    \/ item.comment # None /\ cur.comment # item.comment
    \/ cur.enabled # item.enabled

\* allow_list.py: needs_update
ListNeedsUpdate(item, gids, cur) ==
    \/ item.comment # None /\ cur.comment # item.comment
    \/ gids # << >> /\ cur.groups # Range(gids)
    \/ cur.enabled # item.enabled

\* The deletion list without the test that the name exists remotely
ToDeleteEveryAbsent(des, ex) ==
    SelectSeq([n \in 1..Len(des) |-> n], LAMBDA n : des[n].state = "absent")

\* clients_to_delete / groups_to_delete, as indices into the desired list
ToDelete(des, ex) ==
    SelectSeq([n \in 1..Len(des) |-> n],
              LAMBDA n : des[n].state = "absent" /\ ex[des[n].key].exists)

\* The branch the loop body of clients.py / groups.py takes for an item;
\* an absent item is left to the deletion list (`marked`: it is on it).
SnapshotAction(m, item, gids, cur, marked) ==
    IF item.state = "present"
    THEN IF ~cur.exists THEN "create"
         ELSE IF (IF m = "clients" THEN ClientUpdateNeeded(item, gids, cur)
                  ELSE GroupUpdateNeeded(item, cur))
              THEN "update" ELSE "unchanged"
    ELSE IF marked THEN "delete" ELSE "absent_already"

\* The loop body with the test `existing_list_data is None` inverted
ListActionInverted(item, gids, cur) ==
    IF item.state = "present"
    THEN IF cur.exists THEN "create"
         ELSE IF ListNeedsUpdate(item, gids, cur) THEN "update" ELSE "unchanged"
    ELSE IF cur.exists THEN "delete" ELSE "absent_already"

\* The branch the loop body of allow_list.py takes for an item
ListAction(item, gids, cur) ==
    IF item.state = "present"
    THEN IF ~cur.exists THEN "create"
         ELSE IF ListNeedsUpdate(item, gids, cur) THEN "update" ELSE "unchanged"
    ELSE IF cur.exists THEN "delete" ELSE "absent_already"

\* The remote after a successful create or update: the request's values are stored.
ApplyPut(rem, key, comment, gids, enabled) ==
    [rem EXCEPT ![key] = RItem(comment, Range(gids), enabled)]

\* The remote after a successful delete of `keys`
ApplyDelete(rem, keys) ==
    [k \in Keys |-> IF k \in keys THEN Absent ELSE rem[k]]

\* What a wrapped call (create_client, update_group, ...) can come back with:
\* the library's answer, or {'error': ...}.
WrappedOutcomes(issued) ==
    IF ~issued THEN {"none"}
    ELSE IF faults < MaxFaults THEN {"ok", "error"} ELSE {"ok"}

\* What a direct library call can do: answer, answer with an error-shaped
\* response, or raise.  `spent` failures were already chosen in this step.
DirectOutcomes(issued, spent) ==
    IF ~issued THEN {"none"}
    ELSE IF faults + spent < MaxFaults THEN {"ok", "error", "raise"} ELSE {"ok"}

Failed(out) == out \in {"error", "raise"}

Call(op, idxs, keys, comment, gids, enabled, out, before) ==
    [op |-> op, idxs |-> idxs, keys |-> keys, comment |-> comment, gids |-> gids,
     enabled |-> enabled, outcome |-> out, before |-> before]

Act(idx, item, action, cur, inRemote, gids) ==
    [idx |-> idx, key |-> item.key, state |-> item.state, action |-> action,
     cur |-> cur, inRemote |-> inRemote, gids |-> gids]

Rec(key, action) == [key |-> key, action |-> action]

\* fail_json(msg=...) as clients.py / groups.py call it after a failed call:
\* neither changed nor the records are handed over.
FailBare == [kind |-> "fail", changed |-> FALSE, records |-> << >>]

\* fail_json(msg=..., **result) of the except clause
FailWith(ch, recs) == [kind |-> "fail", changed |-> ch, records |-> recs]

\* exit_json(**result)
ExitWith(ch, recs) == [kind |-> "exit", changed |-> ch, records |-> recs]

----------------------------------------------------------------------------
(* The state machine *)

\* The bridge server has handled no POST
BridgeLogOff == posts = << >>

\* No contact operation has been carried out
CardOff ==
    /\ nc_card = << >>
    /\ nc_card0 = << >>
    /\ nc_args = << >>
    /\ nc_result = "none"
    /\ nc_calls = 0
    /\ nc_faults = 0

\* split_audio has not been called
AudioOff ==
    /\ duration = 0
    /\ segment_time = 0
    /\ overlap = 0
    /\ start_time = 0
    /\ part_num = 0
    /\ chunks = << >>
    /\ apc = "off"
    /\ ffmpeg_faults = 0

\* transcribe_chunk has not been called
SpinnerOff ==
    /\ tc_pc = "off"
    /\ done = FALSE
    /\ sp_pc = "unstarted"
    /\ frame = 0
    /\ req = "none"
    /\ tc_calls = 0
    /\ proc = "off"

\* No cache file is being written
PermOff ==
    /\ pf_script = "none"
    /\ umask = "none"
    /\ pf_mode = "absent"
    /\ pf_content = ""
    /\ pf_pc = "off"
    /\ obs_who = "none"
    /\ obs_fd = FALSE
    /\ obs_read = "none"
    /\ chmod_faults = 0

\* The programs of latevars take no part in the behaviour
LateOff == BridgeLogOff /\ CardOff /\ AudioOff /\ SpinnerOff /\ PermOff

\* Of the programs of latevars only the named one takes part
CardAlone == BridgeLogOff /\ AudioOff /\ SpinnerOff /\ PermOff
AudioAlone == BridgeLogOff /\ CardOff /\ SpinnerOff /\ PermOff
SpinnerAlone == BridgeLogOff /\ CardOff /\ AudioOff /\ PermOff
PermAlone == BridgeLogOff /\ CardOff /\ AudioOff /\ SpinnerOff

\* No Trac operation has been carried out
TracOff == tool_calls = << >>

\* No credentials of Google are held and get_creds was not called
NoCreds == [present |-> FALSE, scopes |-> {}, expired |-> FALSE, refresh_token |-> FALSE]

GoogleOff ==
    /\ token_file = NoCreds
    /\ credentials_file = FALSE
    /\ creds_calls = << >>

\* No task of dhcp_remove_lease is run
NoParams == [ip |-> "", name |-> "", clientid |-> "", hwaddr |-> "", check_mode |-> FALSE]

DhcpOff ==
    /\ params = NoParams
    /\ leases = {}
    /\ leases0 = {}
    /\ dpc = "off"
    /\ matching_leases = << >>
    /\ remove_calls = << >>
    /\ dhcp_exit = [kind |-> "none", changed |-> FALSE]

\* The Trac, Google and DHCP programs take no part in the behaviour
ExtOff == TracOff /\ GoogleOff /\ DhcpOff

\* No script process takes part in a behaviour of the Pi-hole modules.
ScriptsOff ==
    /\ ExtOff
    /\ script = "none"
    /\ spc = "off"
    /\ arg_value = ""
    /\ env_value = ""
    /\ token = ""
    /\ requests = << >>
    /\ exit_code = -1
    /\ sfaults = 0
    /\ main_calls = 0
    /\ labels = << >>
    /\ remote_labels = << >>
    /\ existing_labels = << >>
    /\ li = 1
    /\ resolved_labels = << >>
    /\ lookups = << >>
    /\ consulted = << >>
    /\ op_result = "none"
    /\ cache_file = "no-file"
    /\ vault_line = "no-line"
    /\ started = 0
    /\ history = << >>
    /\ command = "none"
    /\ uid_known = FALSE
    /\ bashrc_value = ""
    /\ responses = << >>

\* No fetch and no lookup was made yet
NoFetch == [groups |-> "none", items |-> "none"]

NoLookups == fetched = NoFetch /\ looked = << >>

Init ==
    /\ NoLookups
    /\ modname \in {"clients", "groups", "allow_list"}
    /\ desired \in DesiredLists(modname)
    /\ update_gravity = FALSE
    /\ remote \in InitialRemotes(modname)
    /\ run = 0
    /\ check_mode \in BOOLEAN
    /\ pc = "idle"
    /\ i = 1
    /\ existing_groups = << >>
    /\ existing = NoRemote
    /\ to_delete = << >>
    /\ changed = FALSE
    /\ records = << >>
    /\ returned = NoReturn
    /\ warnings = << >>
    /\ acts = << >>
    /\ calls = << >>
    /\ faults = 0
    /\ faulted = FALSE
    /\ gravity = "none"
    /\ prev = [clean |-> FALSE, changed |-> FALSE]
    /\ ScriptsOff
    /\ LateOff

FetchOutcomes(spent) == IF faults + spent < MaxFaults THEN {"ok", "raise"} ELSE {"ok"}

Spent(out) == IF Failed(out) THEN 1 ELSE 0

\* The start of run_module / main, up to the loop: result = {changed: False, ...},
\* the check-mode exit of allow_list, PiHole6Client(url, password),
\* get_existing_groups, get_existing_clients, the deletion list.
StartRun ==
    /\ pc \in {"idle", "done", "failed"}
    /\ run < MaxRuns
    /\ run' = run + 1
    /\ prev' = [clean |-> (pc = "done" /\ ~faulted /\ ~check_mode),
                changed |-> returned.changed]
    /\ changed' = FALSE
    /\ records' = << >>
    /\ warnings' = << >>
    /\ acts' = << >>
    /\ calls' = << >>
    /\ gravity' = "none"
    /\ i' = 1
    /\ update_gravity' = FALSE
    /\ looked' = << >>
    /\ UNCHANGED others
    /\ UNCHANGED <<modname, desired, remote, check_mode>>
    /\ IF modname = "allow_list" /\ check_mode
       THEN \* if module.check_mode: module.exit_json(**result)
            /\ pc' = "done"
            /\ fetched' = NoFetch
            /\ returned' = ExitWith(FALSE, << >>)
            /\ existing_groups' = << >>
            /\ existing' = NoRemote
            /\ to_delete' = << >>
            /\ faulted' = FALSE
            /\ UNCHANGED faults
       ELSE \E conn \in FetchOutcomes(0) :
            \E gf \in (IF conn = "ok" /\ modname # "groups"
                       THEN FetchOutcomes(0) ELSE {"ok"}) :
            \E cf \in (IF conn = "ok" /\ modname # "allow_list"
                       THEN FetchOutcomes(Spent(gf)) ELSE {"ok"}) :
                /\ faults' = faults + Spent(conn) + Spent(gf) + Spent(cf)
                /\ fetched' = [groups |-> IF conn = "ok" /\ modname # "groups"
                                          THEN (IF gf = "ok" THEN "ok" ELSE "failed") ELSE "none",
                               items |-> IF conn = "ok" /\ modname # "allow_list"
                                         THEN (IF cf = "ok" THEN "ok" ELSE "failed") ELSE "none"]
                /\ faulted' = (Failed(conn) \/ Failed(gf) \/ Failed(cf))
                /\ existing_groups' =
                      IF conn = "ok" /\ modname # "groups" /\ gf = "ok"
                      THEN RemoteGroups ELSE << >>
                /\ existing' =
                      IF conn = "ok" /\ modname # "allow_list" /\ cf = "ok"
                      THEN remote ELSE NoRemote
                /\ to_delete' =
                      IF conn = "ok" /\ modname # "allow_list"
                      THEN ToDelete(desired, existing') ELSE << >>
                /\ IF conn = "ok"
                   THEN /\ pc' = "loop"
                        /\ returned' = NoReturn
                   ELSE \* except Exception: fail_json(msg, **result)
                        /\ pc' = "failed"
                        /\ returned' = FailWith(FALSE, << >>)

AfterItem(td) ==
    IF i < Len(desired) THEN "loop"
    ELSE IF td = << >> THEN "exit" ELSE "delete"

\* One pass of the loop body of clients.py / groups.py
ProcessItem ==
    /\ pc = "loop"
    /\ modname \in {"clients", "groups"}
    /\ LET item == desired[i]
           m == IF modname = "clients"
                THEN map_groups_to_ids(item.groups, existing_groups)
                ELSE [ids |-> << >>, missing |-> << >>]
           cur == existing[item.key]
           action == SnapshotAction(modname, item, m.ids, cur, i \in Range(to_delete))
           issued == action \in {"create", "update"} /\ ~check_mode
       IN  \E out \in WrappedOutcomes(issued) :
            /\ warnings' = IF m.missing # << >> THEN Append(warnings, m.missing) ELSE warnings
            /\ acts' = Append(acts, Act(i, item, action, cur, remote[item.key].exists, m.ids))
            /\ calls' = IF issued
                        THEN Append(calls, Call(action, {i}, <<item.key>>, item.comment, m.ids,
                                                item.enabled, out, remote[item.key]))
                        ELSE calls
            /\ remote' = IF out = "ok"
                         THEN ApplyPut(remote, item.key, item.comment, m.ids, item.enabled)
                         ELSE remote
            /\ IF out = "error"
               THEN \* fail_json(msg=f'Failed to create client ...')
                    /\ pc' = "failed"
                    /\ returned' = FailBare
                    /\ faults' = faults + 1
                    /\ faulted' = TRUE
                    /\ UNCHANGED <<changed, records, i>>
               ELSE /\ changed' = (changed \/ action \in {"create", "update"})
                    /\ records' =
                          CASE action = "create" -> Append(records, Rec(item.key, "created"))
                            [] action = "update" -> Append(records, Rec(item.key, "updated"))
                            [] action = "unchanged" -> Append(records, Rec(item.key, "unchanged"))
                            [] OTHER -> records
                    /\ i' = i + 1
                    /\ pc' = AfterItem(to_delete)
                    /\ UNCHANGED <<returned, faults, faulted>>
    /\ UNCHANGED <<others, lookvars>>
    /\ UNCHANGED <<modname, desired, update_gravity, run, check_mode, existing_groups,
                   existing, to_delete, gravity, prev>>

\* One pass of the loop body of allow_list.py: resolve the groups, look the
\* address up with get_list, then add, update, mark for deletion or leave.
ProcessListItem ==
    /\ pc = "loop"
    /\ modname = "allow_list"
    /\ LET item == desired[i]
           m == map_groups_to_ids(item.groups, existing_groups)
       IN  /\ warnings' = IF m.missing # << >> THEN Append(warnings, m.missing) ELSE warnings
           /\ \E look \in DirectOutcomes(TRUE, 0) :
                IF look = "raise"
                THEN \* lists.get_list raised: except Exception: fail_json(msg, **result)
                     /\ pc' = "failed"
                     /\ returned' = FailWith(changed, << >>)
                     /\ faults' = faults + 1
                     /\ faulted' = TRUE
                     /\ looked' = Append(looked, look)
                     /\ UNCHANGED <<remote, i, to_delete, changed, records, acts, calls>>
                ELSE
                LET cur == IF look = "ok" THEN remote[item.key] ELSE Absent
                    action == ListAction(item, m.ids, cur)
                    issued == action \in {"create", "update"}
                    td == IF action = "delete" THEN Append(to_delete, i) ELSE to_delete
                IN  \E out \in DirectOutcomes(issued, Spent(look)) :
                     /\ looked' = Append(looked, look)
                     /\ acts' = Append(acts, Act(i, item, action, cur, remote[item.key].exists, m.ids))
                     /\ calls' = IF issued
                                 THEN Append(calls, Call(action, {i}, <<item.key>>, item.comment,
                                                         m.ids, item.enabled, out, remote[item.key]))
                                 ELSE calls
                     /\ remote' = IF out = "ok"
                                  THEN ApplyPut(remote, item.key, item.comment, m.ids, item.enabled)
                                  ELSE remote
                     /\ faults' = faults + Spent(look) + Spent(out)
                     /\ IF out = "raise"
                        THEN \* add_list / update_list raised
                             /\ pc' = "failed"
                             /\ returned' = FailWith(changed, << >>)
                             /\ faulted' = TRUE
                             /\ UNCHANGED <<i, to_delete, changed, records>>
                        ELSE /\ faulted' = (faulted \/ Failed(look) \/ Failed(out))
                             /\ changed' = (changed \/ action \in {"create", "update", "delete"})
                             /\ records' =
                                   CASE action = "create" -> Append(records, Rec(item.key, "added"))
                                     [] action = "update" -> Append(records, Rec(item.key, "updated"))
                                     [] action = "unchanged" -> Append(records, Rec(item.key, "unchanged"))
                                     [] action = "delete" ->
                                            Append(records, Rec(item.key, "marked_for_deletion"))
                                     [] OTHER -> Append(records, Rec(item.key, "absent_already"))
                             /\ to_delete' = td
                             /\ i' = i + 1
                             /\ pc' = AfterItem(td)
                             /\ UNCHANGED returned
    /\ UNCHANGED <<others, fetched>>
    /\ UNCHANGED <<modname, desired, update_gravity, run, check_mode, existing_groups,
                   existing, gravity, prev>>

\* The deletion list naming only its first key
KeysOfFirst(idxs) == <<desired[idxs[1]].key>>

KeysOf(idxs) == [n \in 1..Len(idxs) |-> desired[idxs[n]].key]

\* `if clients_to_delete:` of clients.py / groups.py: the records, then one
\* delete call, or one batch-delete call for several names.
DeleteMarked ==
    /\ pc = "delete"
    /\ modname \in {"clients", "groups"}
    /\ LET names == KeysOf(to_delete)
           op == IF Len(names) = 1 THEN "delete" ELSE "batch_delete"
       IN  /\ changed' = TRUE
           /\ records' = records \o [n \in 1..Len(names) |-> Rec(names[n], "deleted")]
           /\ \E out \in WrappedOutcomes(~check_mode) :
                /\ calls' = IF ~check_mode
                            THEN Append(calls, Call(op, Range(to_delete), names, None, << >>,
                                                    TRUE, out, remote[names[1]]))
                            ELSE calls
                /\ remote' = IF out = "ok" THEN ApplyDelete(remote, Range(names)) ELSE remote
                /\ IF out = "error"
                   THEN \* fail_json(msg=f'Failed to delete client ...')
                        /\ pc' = "failed"
                        /\ returned' = FailBare
                        /\ faults' = faults + 1
                        /\ faulted' = TRUE
                   ELSE /\ pc' = "exit"
                        /\ UNCHANGED <<returned, faults, faulted>>
    /\ UNCHANGED <<others, lookvars>>
    /\ UNCHANGED <<modname, desired, update_gravity, run, check_mode, i, existing_groups,
                   existing, to_delete, warnings, acts, gravity, prev>>

\* One pass of `for address in lists_to_delete:` of allow_list.py
DeleteNext ==
    /\ pc = "delete"
    /\ modname = "allow_list"
    /\ LET idx == Head(to_delete)
           address == desired[idx].key
       IN  \E out \in DirectOutcomes(TRUE, 0) :
            /\ calls' = Append(calls, Call("delete", {idx}, <<address>>, None, << >>, TRUE,
                                           out, remote[address]))
            /\ remote' = IF out = "ok" THEN ApplyDelete(remote, {address}) ELSE remote
            /\ faults' = faults + Spent(out)
            /\ faulted' = (faulted \/ Failed(out))
            /\ IF out = "raise"
               THEN /\ pc' = "failed"
                    /\ returned' = FailWith(changed, << >>)
                    /\ UNCHANGED <<records, to_delete>>
               ELSE /\ records' = [n \in 1..Len(records) |->
                                      IF records[n].key = address
                                         /\ records[n].action = "marked_for_deletion"
                                      THEN Rec(address, "deleted") ELSE records[n]]
                    /\ to_delete' = Tail(to_delete)
                    /\ pc' = IF Tail(to_delete) = << >> THEN "exit" ELSE "delete"
                    /\ UNCHANGED returned
    /\ UNCHANGED <<others, lookvars>>
    /\ UNCHANGED <<modname, desired, update_gravity, run, check_mode, i, existing_groups,
                   existing, changed, warnings, acts, gravity, prev>>

\* What run_gravity can do: report an updated list, report none, or raise.
GravityOutcomes(ug) ==
    IF ~ug THEN {"none"}
    ELSE IF faults < MaxFaults THEN {"updated", "same", "raise"} ELSE {"updated", "same"}

\* The end of the run: `if update_gravity:` (allow_list), then exit_json(**result)
Exit ==
    /\ pc = "exit"
    /\ \E ug \in (IF modname = "allow_list" THEN BOOLEAN ELSE {FALSE}) :
       \E g \in GravityOutcomes(ug) :
        /\ update_gravity' = ug
        /\ gravity' = g
        /\ IF g = "raise"
           THEN /\ pc' = "failed"
                /\ returned' = FailWith(changed, << >>)
                /\ faults' = faults + 1
                /\ faulted' = TRUE
                /\ UNCHANGED <<changed, records>>
           ELSE /\ changed' = (changed \/ g = "updated")
                /\ records' = IF g = "none" THEN records
                              ELSE Append(records, Rec("", "run_gravity"))
                /\ returned' = ExitWith(changed', records')
                /\ pc' = "done"
                /\ UNCHANGED <<faults, faulted>>
    /\ UNCHANGED <<others, lookvars>>
    /\ UNCHANGED <<modname, desired, remote, run, check_mode, i,
                   existing_groups, existing, to_delete, warnings, acts, calls, prev>>

Next ==
    \/ StartRun
    \/ ProcessItem
    \/ ProcessListItem
    \/ DeleteMarked
    \/ DeleteNext
    \/ Exit

Spec == Init /\ [][Next]_allvars

----------------------------------------------------------------------------
(* scripts/create_vikunja_task.py *)

\* No Pi-hole module takes part in the behaviour of a script process.
PiholeOff ==
    /\ NoLookups
    /\ modname = "none"
    /\ desired = << >>
    /\ update_gravity = FALSE
    /\ remote = NoRemote
    /\ run = 0
    /\ check_mode = FALSE
    /\ pc = "off"
    /\ i = 1
    /\ existing_groups = << >>
    /\ existing = NoRemote
    /\ to_delete = << >>
    /\ changed = FALSE
    /\ records = << >>
    /\ returned = NoReturn
    /\ warnings = << >>
    /\ acts = << >>
    /\ calls = << >>
    /\ faults = 0
    /\ faulted = FALSE
    /\ gravity = "none"
    /\ prev = [clean |-> FALSE, changed |-> FALSE]

\* The file ends with two `if __name__ == "__main__": main()` blocks.
MainBlocks == 2

LabelNames == {"test", "Test", "home"}

\* labels = [w[1:] for w in words if w.startswith('*')]
LabelLists == UNION {[1..n -> LabelNames] : n \in 0..MaxItems}

Label(t, n) == [title |-> t, id |-> n]

InitialLabels ==
    { << >>,
      << Label("Test", 1) >>,
      << Label("home", 1), Label("test", 2) >>,
      << Label("Test", 1), Label("test", 2) >> }

\* A request of a script either succeeds or fails (HTTP error, no
\* connection, unexpected status).
RequestOutcomes == IF sfaults < MaxFaults THEN {"ok", "error"} ELSE {"ok"}

Request(op, tok, what, out) == [op |-> op, token |-> tok, what |-> what, outcome |-> out]

\* label_map = {l['title'].lower(): l for l in existing_labels} followed by
\* label_map.get(label_name.lower()): the last label, up to position n, whose
\* title equals `name` ignoring case; its id, -1 when there is none.
RECURSIVE LabelMapGet(_, _, _)
LabelMapGet(name, labs, n) ==
    IF n = 0 THEN -1
    ELSE IF Lower(labs[n].title) = Lower(name) THEN labs[n].id
    ELSE LabelMapGet(name, labs, n - 1)

VikunjaInit ==
    /\ PiholeOff
    /\ LateOff
    /\ script = "create_vikunja_task"
    /\ spc = "main"
    /\ arg_value \in {"", "arg-token"}
    /\ env_value \in {"", "env-token"}
    /\ token = ""
    /\ requests = << >>
    /\ exit_code = -1
    /\ sfaults = 0
    /\ main_calls = 0
    /\ labels \in LabelLists
    /\ remote_labels \in InitialLabels
    /\ existing_labels = << >>
    /\ li = 1
    /\ resolved_labels = << >>
    /\ lookups = << >>
    /\ consulted = << >>
    /\ op_result = "none"
    /\ cache_file = "no-file"
    /\ vault_line = "no-line"
    /\ started = 1
    /\ history = << >>
    /\ command = "none"
    /\ uid_known = FALSE
    /\ bashrc_value = ""
    /\ responses = << >>
    /\ ExtOff

\* main() up to the label resolution of create_task: the token is the
\* --token argument, else VIKUNJA_API_TOKEN; without one the process exits 1.
VkMain ==
    /\ script = "create_vikunja_task"
    /\ spc = "main"
    /\ main_calls' = main_calls + 1
    /\ LET tok == IF arg_value # "" THEN arg_value ELSE env_value
       IN  /\ token' = tok
           /\ consulted' = <<[source |-> "arg", value |-> arg_value]>>
                            \o (IF arg_value = ""
                                THEN <<[source |-> "env", value |-> env_value]>> ELSE << >>)
           /\ IF tok = ""
              THEN /\ spc' = "exited"
                   /\ exit_code' = 1
                   /\ op_result' = "missing_credential"
              ELSE /\ spc' = IF labels # << >> THEN "get_labels" ELSE "put_task"
                   /\ exit_code' = exit_code
                   /\ op_result' = "none"
    /\ existing_labels' = << >>
    /\ li' = 1
    /\ resolved_labels' = << >>
    /\ lookups' = << >>
    /\ UNCHANGED <<script, arg_value, env_value, requests, sfaults, labels, remote_labels>>
    /\ UNCHANGED credvars
    /\ UNCHANGED restvars
    /\ UNCHANGED vars

\* get_all_labels: the labels of the instance, [] when the request fails
VkGetLabels ==
    /\ script = "create_vikunja_task"
    /\ spc = "get_labels"
    /\ \E out \in RequestOutcomes :
         /\ requests' = Append(requests, Request("get_labels", token, "", out))
         /\ sfaults' = IF out = "ok" THEN sfaults ELSE sfaults + 1
         /\ existing_labels' = IF out = "ok" THEN remote_labels ELSE << >>
    /\ spc' = "label_loop"
    /\ UNCHANGED <<script, arg_value, env_value, token, exit_code, main_calls, labels,
                   remote_labels, li, resolved_labels, lookups, consulted, op_result>>
    /\ UNCHANGED credvars
    /\ UNCHANGED restvars
    /\ UNCHANGED vars

\* One pass of `for label_name in labels`: the id of the known label, else
\* create_label and the id of the new label when that request succeeds.
VkResolveLabel ==
    /\ script = "create_vikunja_task"
    /\ spc = "label_loop"
    /\ LET name == labels[li]
           found == LabelMapGet(name, existing_labels, Len(existing_labels))
           new_id == Len(remote_labels) + 1
       IN  IF found >= 0
           THEN /\ resolved_labels' = Append(resolved_labels, found)
                /\ lookups' = Append(lookups, [name |-> name, id |-> found, created |-> FALSE])
                /\ UNCHANGED <<requests, sfaults, remote_labels>>
           ELSE \E out \in RequestOutcomes :
                /\ requests' = Append(requests, Request("create_label", token, name, out))
                /\ sfaults' = IF out = "ok" THEN sfaults ELSE sfaults + 1
                /\ lookups' = Append(lookups, [name |-> name, id |-> -1, created |-> out = "ok"])
                /\ IF out = "ok"
                   THEN /\ remote_labels' = Append(remote_labels, Label(name, new_id))
                        /\ resolved_labels' = Append(resolved_labels, new_id)
                   ELSE UNCHANGED <<remote_labels, resolved_labels>>
    /\ li' = li + 1
    /\ spc' = IF li = Len(labels) THEN "put_task" ELSE "label_loop"
    /\ UNCHANGED <<script, arg_value, env_value, token, exit_code, main_calls, labels,
                   existing_labels, consulted, op_result>>
    /\ UNCHANGED credvars
    /\ UNCHANGED restvars
    /\ UNCHANGED vars

\* The PUT of the task: on success create_task returns, and the process goes
\* on to the next `main()` block or ends with status 0; every failure is
\* sys.exit(1).
VkPutTask ==
    /\ script = "create_vikunja_task"
    /\ spc = "put_task"
    /\ \E out \in RequestOutcomes :
         /\ requests' = Append(requests, Request("create_task", token, resolved_labels, out))
         /\ sfaults' = IF out = "ok" THEN sfaults ELSE sfaults + 1
         /\ IF out # "ok"
            THEN /\ spc' = "exited"
                 /\ exit_code' = 1
                 /\ op_result' = "api_error"
            ELSE IF main_calls < MainBlocks
            THEN /\ spc' = "main"
                 /\ exit_code' = exit_code
                 /\ op_result' = "none"
            ELSE /\ spc' = "exited"
                 /\ exit_code' = 0
                 /\ op_result' = "ok"
    /\ UNCHANGED <<script, arg_value, env_value, token, main_calls, labels, remote_labels,
                   existing_labels, li, resolved_labels, lookups, consulted>>
    /\ UNCHANGED credvars
    /\ UNCHANGED restvars
    /\ UNCHANGED vars

VikunjaNext ==
    \/ VkMain
    \/ VkGetLabels
    \/ VkResolveLabel
    \/ VkPutTask

\* The Pi-hole modules and create_vikunja_task.py: the programs that resolve names
LookupSpec == (Init \/ VikunjaInit) /\ [][Next \/ VikunjaNext]_allvars

----------------------------------------------------------------------------
(* scripts/hass_api_manager.py, scripts/manage_nextcloud_contacts.py *)

NoFile == "no-file"
NoLine == "no-line"

\* str.strip() on the texts that occur
Strip(s) == CASE s = " vault-secret " -> "vault-secret"
              [] s = " " -> ""
              [] OTHER -> s

\* .strip("'").strip('"') on the texts that occur
StripQuotes(s) == CASE s = "'vault-secret'" -> "vault-secret"
                    [] s = "' vault-secret '" -> " vault-secret "
                    [] s = "''" -> ""
                    [] OTHER -> s

\* What follows the key's colon in the decrypted vault, NoLine when the
\* vault file is missing, cannot be decrypted or has no such key
VaultLines == {NoLine, "'vault-secret'", "' vault-secret '", "''"}

CacheFiles == {NoFile, "", "cached-secret"}

\* get_token_from_tmp / get_password_from_tmp: the stripped content of the
\* cache file, no value when there is no file
ReadTmp(file) == IF file = NoFile THEN "" ELSE Strip(file)

\* get_token_from_vault / get_password_from_vault after the cache check:
\* token = line.split(":", 1)[1].strip().strip("'").strip('"')
ParseVaultLine(line) == IF line = NoLine THEN "" ELSE StripQuotes(Strip(line))

\* A source consulted and the value it yielded ("" for none)
Src(name, value) == [source |-> name, value |-> value]

\* The chain with the vault consulted before the cache file
ResolveChainVaultFirst(env, file, line) ==
    LET vault == ParseVaultLine(line)
        tmp == ReadTmp(file)
    IN  [token |-> IF env # "" THEN env ELSE IF vault # "" THEN vault ELSE tmp,
         consulted |-> <<Src("env", env)>>
                       \o (IF env = "" THEN <<Src("vault", vault)>> ELSE << >>)
                       \o (IF env = "" /\ vault = "" THEN <<Src("tmp", tmp)>> ELSE << >>),
         from_vault |-> env = "" /\ vault # ""]

\* get_headers, and main of manage_nextcloud_contacts.py with
\* get_password_from_vault: the environment variable, then the cache file,
\* then the vault; each later source is consulted only `if not` the value so far.
ResolveChain(env, file, line) ==
    LET tmp == ReadTmp(file)
        vault == ParseVaultLine(line)
    IN  [token |-> IF env # "" THEN env ELSE IF tmp # "" THEN tmp ELSE vault,
         consulted |-> <<Src("env", env)>>
                       \o (IF env = "" THEN <<Src("tmp", tmp)>> ELSE << >>)
                       \o (IF env = "" /\ tmp = "" THEN <<Src("vault", vault)>> ELSE << >>),
         from_vault |-> env = "" /\ tmp = "" /\ vault # ""]

CredScripts == {"hass_api_manager", "manage_nextcloud_contacts"}

CommandsOf(s) == IF s = "hass_api_manager" THEN {"status", "on"} ELSE {"create", "delete"}

Ended ==
    [env |-> env_value, token |-> token, consulted |-> consulted, exit_code |-> exit_code,
     op_result |-> op_result, cache_file |-> cache_file]

CredInit ==
    /\ PiholeOff
    /\ LateOff
    /\ script \in CredScripts
    /\ spc = "idle"
    /\ arg_value = ""
    /\ env_value = ""
    /\ token = ""
    /\ requests = << >>
    /\ exit_code = -1
    /\ sfaults = 0
    /\ main_calls = 0
    /\ labels = << >>
    /\ remote_labels = << >>
    /\ existing_labels = << >>
    /\ li = 1
    /\ resolved_labels = << >>
    /\ lookups = << >>
    /\ consulted = << >>
    /\ op_result = "none"
    /\ cache_file \in CacheFiles
    /\ vault_line \in VaultLines
    /\ started = 0
    /\ history = << >>
    /\ command = "none"
    /\ uid_known = FALSE
    /\ bashrc_value = ""
    /\ responses = << >>
    /\ ExtOff

vikunjavars == <<main_calls, labels, remote_labels, existing_labels, li, resolved_labels,
                 lookups>>

\* A process of the script starts: its environment and its command line
StartProcess ==
    /\ script \in CredScripts
    /\ spc \in {"idle", "exited"}
    /\ started < MaxRuns
    /\ started' = started + 1
    /\ history' = IF spc = "exited" THEN Append(history, Ended) ELSE history
    /\ env_value' \in {"", "env-secret"}
    /\ command' \in CommandsOf(script)
    /\ uid_known' \in (IF script = "manage_nextcloud_contacts" THEN BOOLEAN ELSE {FALSE})
    /\ token' = ""
    /\ consulted' = << >>
    /\ requests' = << >>
    /\ exit_code' = -1
    /\ op_result' = "none"
    /\ spc' = "resolve"
    /\ UNCHANGED <<script, arg_value, sfaults, cache_file, vault_line>>
    /\ UNCHANGED vikunjavars
    /\ UNCHANGED restvars
    /\ UNCHANGED vars

\* The credential of a process: the chain, the write of the cache file after
\* a vault decryption (a failed write is only logged), sys.exit(1) without a value.
ResolveCredential(next) ==
    LET r == ResolveChain(env_value, cache_file, vault_line)
    IN  /\ token' = r.token
        /\ consulted' = r.consulted
        /\ \E w \in (IF r.from_vault THEN RequestOutcomes ELSE {"ok"}) :
             /\ cache_file' = IF r.from_vault /\ w = "ok" THEN r.token ELSE cache_file
             /\ sfaults' = IF w = "ok" THEN sfaults ELSE sfaults + 1
        /\ IF r.token = ""
           THEN /\ spc' = "exited"
                /\ exit_code' = 1
                /\ op_result' = "missing_credential"
           ELSE /\ spc' = next
                /\ UNCHANGED <<exit_code, op_result>>
        /\ UNCHANGED <<script, arg_value, env_value, requests, vault_line, started, history,
                       command, uid_known>>
        /\ UNCHANGED vikunjavars
        /\ UNCHANGED restvars
        /\ UNCHANGED vars

\* hass_api_manager.py: get_headers, called for the request of the command
get_headers ==
    /\ script = "hass_api_manager"
    /\ spc = "resolve"
    /\ ResolveCredential("request")

\* hass_api_manager.py: the request of the command; a RequestException is
\* printed and the function returns, so the process ends with status 0.
HassRequest ==
    /\ script = "hass_api_manager"
    /\ spc = "request"
    /\ \E out \in RequestOutcomes :
         /\ requests' = Append(requests, Request(command, token, "", out))
         /\ sfaults' = IF out = "ok" THEN sfaults ELSE sfaults + 1
         /\ op_result' = IF out = "ok" THEN "ok" ELSE "api_error"
    /\ spc' = "exited"
    /\ exit_code' = 0
    /\ UNCHANGED <<script, arg_value, env_value, token, consulted>>
    /\ UNCHANGED credvars
    /\ UNCHANGED vikunjavars
    /\ UNCHANGED restvars
    /\ UNCHANGED vars

\* manage_nextcloud_contacts.py: main up to `if not password: ... sys.exit(1)`
get_password ==
    /\ script = "manage_nextcloud_contacts"
    /\ spc = "resolve"
    /\ ResolveCredential("command")

\* What a CardDAV request can do: the expected status, another status, or
\* an exception of the requests library (no connection), which main lets through
DavOutcomes == IF sfaults < MaxFaults THEN {"ok", "error", "raise"} ELSE {"ok"}

\* manage_nextcloud_contacts.py: create_contact / delete_contact as main calls
\* them: the return value is dropped, so only an exception changes the status.
NcCommand ==
    /\ script = "manage_nextcloud_contacts"
    /\ spc = "command"
    /\ \E out \in DavOutcomes :
         LET first == Request(IF command = "create" THEN "PUT" ELSE "PROPFIND", token, "", out)
             found == command = "delete" /\ out = "ok" /\ uid_known
         IN  \E out2 \in (IF found THEN DavOutcomes ELSE {"ok"}) :
             /\ sfaults' = IF out = "ok" /\ out2 = "ok" THEN sfaults ELSE sfaults + 1
             /\ requests' = IF found
                            THEN requests \o <<first, Request("DELETE", token, "", out2)>>
                            ELSE Append(requests, first)
             /\ op_result' = CASE out = "raise" \/ out2 # "ok" -> "api_error"
                               [] out = "error" /\ command = "create" -> "api_error"
                               [] command = "delete" /\ ~found -> "not_found"
                               [] OTHER -> "ok"
             /\ exit_code' = IF out = "raise" \/ out2 = "raise" THEN 1 ELSE 0
    /\ spc' = "exited"
    /\ UNCHANGED <<script, arg_value, env_value, token, consulted>>
    /\ UNCHANGED credvars
    /\ UNCHANGED vikunjavars
    /\ UNCHANGED restvars
    /\ UNCHANGED vars

CredNext ==
    \/ StartProcess
    \/ get_headers
    \/ HassRequest
    \/ get_password
    \/ NcCommand

\* The scripts that resolve a credential: create_vikunja_task.py,
\* hass_api_manager.py, manage_nextcloud_contacts.py
CredSpec == (VikunjaInit \/ CredInit) /\ [][VikunjaNext \/ CredNext]_allvars

----------------------------------------------------------------------------
(* files/local_vikunja_server.py, scripts/unifi_api_manager.py *)

\* create_vikunja_task.py is not the script of the process
VikunjaOff ==
    /\ main_calls = 0
    /\ labels = << >>
    /\ remote_labels = << >>
    /\ existing_labels = << >>
    /\ li = 1
    /\ resolved_labels = << >>
    /\ lookups = << >>

\* A process that has not done anything yet
ProcessFresh ==
    /\ arg_value = ""
    /\ token = ""
    /\ requests = << >>
    /\ exit_code = -1
    /\ sfaults = 0
    /\ consulted = << >>
    /\ op_result = "none"
    /\ cache_file = NoFile
    /\ started = 1
    /\ history = << >>
    /\ uid_known = FALSE
    /\ responses = << >>

BridgeInit ==
    /\ PiholeOff
    /\ LateOff
    /\ ExtOff
    /\ VikunjaOff
    /\ ProcessFresh
    /\ script = "local_vikunja_server"
    /\ spc = "startup"
    /\ env_value \in {"", "env-token"}
    /\ vault_line = NoLine
    /\ command = "none"
    /\ bashrc_value = ""

\* Module level of local_vikunja_server.py: API_TOKEN = os.getenv(...); without
\* it an error is printed, and the server is started all the same.
BridgeStartup ==
    /\ script = "local_vikunja_server"
    /\ spc = "startup"
    /\ token' = env_value
    /\ consulted' = <<Src("env", env_value)>>
    /\ op_result' = IF env_value = "" THEN "missing_credential" ELSE "none"
    /\ spc' = "serving"
    /\ UNCHANGED <<script, arg_value, env_value, requests, exit_code, sfaults>>
    /\ UNCHANGED <<credvars, restvars, vikunjavars, vars>>

\* MyHandler.do_POST: 404 for another path; 500 when the body cannot be
\* used; else the PUT to Vikunja with `Bearer {API_TOKEN}` and 200, or 500 on
\* an HTTPError or any other exception.
\* What the reading and logging of Vikunja's answer can do once the PUT has returned
AnswerHandling == {"ok", "raises"}

\* One handled POST: its path, the statuses sent back, how each relayed PUT ended
Post(path, statuses, puts) == [path |-> path, statuses |-> statuses, puts |-> puts]

do_POST ==
    /\ script = "local_vikunja_server"
    /\ spc = "serving"
    /\ Len(responses) < MaxItems
    /\ \E path \in {"/create-task", "/other"}, valid \in BOOLEAN :
         IF path # "/create-task"
         THEN /\ responses' = Append(responses, 404)
              /\ posts' = Append(posts, Post(path, <<404>>, << >>))
              /\ UNCHANGED <<requests, sfaults>>
         ELSE IF ~valid
         THEN /\ responses' = Append(responses, 500)
              /\ posts' = Append(posts, Post(path, <<500>>, << >>))
              /\ UNCHANGED <<requests, sfaults>>
         ELSE \E out \in RequestOutcomes, answer \in AnswerHandling :
              LET status == IF out = "ok" /\ answer = "ok" THEN 200 ELSE 500 IN
              /\ requests' = Append(requests, Request("create_task", token, "", out))
              /\ sfaults' = IF out = "ok" THEN sfaults ELSE sfaults + 1
              /\ responses' = Append(responses, status)
              /\ posts' = Append(posts, Post(path, <<status>>, <<out>>))
    /\ UNCHANGED <<script, spc, arg_value, env_value, token, exit_code, consulted, op_result,
                   bashrc_value, extvars>>
    /\ UNCHANGED <<credvars, vikunjavars, pivars, notbridge>>

\* The values load_credentials falls back on
HardcodedDefault == "default-pass"

UnifiInit ==
    /\ PiholeOff
    /\ LateOff
    /\ ExtOff
    /\ VikunjaOff
    /\ ProcessFresh
    /\ script = "unifi_api_manager"
    /\ spc = "init"
    /\ env_value \in {"", "env-pass"}
    /\ bashrc_value \in {"", "bashrc-pass"}
    /\ vault_line \in {NoLine, "plaintext"}
    /\ command \in {"summary", "list-clients"}

\* UnifiManager.load_credentials (url, user and password are taken from the
\* same places; the password stands for the three): the environment, the
\* export lines of ~/.bashrc, a vault.yml that is not encrypted, and at last
\* the values written in the code.
load_credentials ==
    /\ script = "unifi_api_manager"
    /\ spc = "init"
    /\ LET step2 == IF env_value # "" THEN env_value ELSE bashrc_value
           vault == IF vault_line = NoLine THEN "" ELSE HardcodedDefault
           step3 == IF step2 # "" THEN step2 ELSE vault
       IN  /\ token' = IF step3 # "" THEN step3 ELSE HardcodedDefault
           /\ consulted' = <<Src("env", env_value)>>
                           \o (IF env_value = "" THEN <<Src("bashrc", bashrc_value)>> ELSE << >>)
                           \o (IF step2 = "" THEN <<Src("vault", vault)>> ELSE << >>)
                           \o (IF step3 = "" THEN <<Src("default", HardcodedDefault)>> ELSE << >>)
    /\ spc' = "login"
    /\ UNCHANGED <<script, arg_value, env_value, requests, exit_code, sfaults, op_result>>
    /\ UNCHANGED <<credvars, restvars, vikunjavars, vars>>

\* UnifiManager.login and the `else: print("Could not log in.")` of __main__
login ==
    /\ script = "unifi_api_manager"
    /\ spc = "login"
    /\ \E out \in RequestOutcomes :
         /\ requests' = Append(requests, Request("login", token, "", out))
         /\ sfaults' = IF out = "ok" THEN sfaults ELSE sfaults + 1
         /\ IF out = "ok"
            THEN /\ spc' = "command"
                 /\ UNCHANGED <<exit_code, op_result>>
            ELSE /\ spc' = "exited"
                 /\ exit_code' = 0
                 /\ op_result' = "api_error"
    /\ UNCHANGED <<script, arg_value, env_value, token, consulted>>
    /\ UNCHANGED <<credvars, restvars, vikunjavars, vars>>

\* The command of __main__: get_devices / get_clients / get_events give [] on
\* any error, and the process ends.
UnifiCommand ==
    /\ script = "unifi_api_manager"
    /\ spc = "command"
    /\ \E out \in RequestOutcomes :
         /\ requests' = Append(requests, Request(command, token, "", out))
         /\ sfaults' = IF out = "ok" THEN sfaults ELSE sfaults + 1
         /\ op_result' = IF out = "ok" THEN "ok" ELSE "api_error"
    /\ spc' = "exited"
    /\ exit_code' = 0
    /\ UNCHANGED <<script, arg_value, env_value, token, consulted>>
    /\ UNCHANGED <<credvars, restvars, vikunjavars, vars>>

ServerNext ==
    \/ BridgeStartup
    \/ do_POST
    \/ load_credentials
    \/ login
    \/ UnifiCommand

\* Every script that takes a credential from its surroundings
ScriptsSpec ==
    /\ VikunjaInit \/ CredInit \/ BridgeInit \/ UnifiInit
    /\ [][VikunjaNext \/ CredNext \/ ServerNext]_allvars

----------------------------------------------------------------------------
(* scripts/create_trac_ticket.py, scripts/update_trac_ticket.py, mcp-servers/trac/server.py *)

\* What ticket.component.getAll() and ticket.priority.getAll() answer
ValidComponents == {"SysAdmin", "Networking"}
ValidPriorities == {"major", "minor"}

\* The component and priority values a caller may give ("": not given)
ComponentArgs == {"SysAdmin", "Bogus"}
PriorityArgs == {"major", "urgent"}

Rpc(method, out) == [method |-> method, outcome |-> out]

ToolCall(tool, comp, prio, rpcs, result) ==
    [tool |-> tool, component |-> comp, priority |-> prio, rpcs |-> rpcs, result |-> result]

\* The requests of a sequence of XML-RPC calls
RECURSIVE RpcRequests(_, _, _)
RpcRequests(rpcs, tok, n) ==
    IF n = 0 THEN << >>
    ELSE Append(RpcRequests(rpcs, tok, n - 1), Request(rpcs[n].method, tok, "", rpcs[n].outcome))

RpcFailed(rpcs) == \E k \in DOMAIN rpcs : rpcs[k].outcome # "ok"

TracCliInit ==
    /\ PiholeOff
    /\ LateOff
    /\ VikunjaOff
    /\ ExtOff
    /\ ProcessFresh
    /\ script \in {"create_trac_ticket", "update_trac_ticket"}
    /\ spc = "module"
    /\ env_value \in {"", "env-pass"}
    /\ vault_line = NoLine
    /\ command = "none"
    /\ bashrc_value = ""

\* Module level of both scripts: TRAC_PASSWORD = os.getenv("TRAC_PASSWORD");
\* if not TRAC_PASSWORD: print(...); exit(1)
TracModuleLevel ==
    /\ script \in {"create_trac_ticket", "update_trac_ticket"}
    /\ spc = "module"
    /\ consulted' = <<Src("env", env_value)>>
    /\ IF env_value = ""
       THEN /\ spc' = "exited"
            /\ exit_code' = 1
            /\ op_result' = "missing_credential"
            /\ UNCHANGED token
       ELSE /\ spc' = "main"
            /\ token' = env_value
            /\ UNCHANGED <<exit_code, op_result>>
    /\ UNCHANGED <<script, arg_value, env_value, requests, sfaults>>
    /\ UNCHANGED <<credvars, restvars, vikunjavars, vars>>

\* create_trac_ticket.py main: the attributes are built from the arguments as
\* given, ticket.create is called, and a Fault or any other exception is
\* printed; main returns and the process ends.
create_trac_ticket_main ==
    /\ script = "create_trac_ticket"
    /\ spc = "main"
    /\ \E comp \in ComponentArgs, prio \in PriorityArgs, out \in RequestOutcomes :
         LET rpcs == <<Rpc("ticket.create", out)>>
             res == IF out = "ok" THEN "ok" ELSE "api_error"
         IN  /\ tool_calls' = Append(tool_calls, ToolCall("create_trac_ticket", comp, prio, rpcs, res))
             /\ requests' = requests \o RpcRequests(rpcs, token, Len(rpcs))
             /\ sfaults' = IF out = "ok" THEN sfaults ELSE sfaults + 1
             /\ op_result' = res
    /\ spc' = "exited"
    /\ exit_code' = 0
    /\ UNCHANGED <<script, arg_value, env_value, token, consulted, bashrc_value, responses>>
    /\ UNCHANGED <<credvars, vikunjavars, googlevars, dhcpvars, vars>>

\* update_trac_ticket.py main: exit(1) when the comment file cannot be read;
\* else ticket.update with the attributes as given, errors only printed.
update_trac_ticket_main ==
    /\ script = "update_trac_ticket"
    /\ spc = "main"
    /\ \E readable \in BOOLEAN, prio \in PriorityArgs \cup {""}, out \in RequestOutcomes :
         IF ~readable
         THEN /\ op_result' = "input_error"
              /\ exit_code' = 1
              /\ UNCHANGED <<tool_calls, requests, sfaults>>
         ELSE LET rpcs == <<Rpc("ticket.update", out)>>
                  res == IF out = "ok" THEN "ok" ELSE "api_error"
              IN  /\ tool_calls' = Append(tool_calls, ToolCall("update_trac_ticket", "", prio, rpcs, res))
                  /\ requests' = requests \o RpcRequests(rpcs, token, Len(rpcs))
                  /\ sfaults' = IF out = "ok" THEN sfaults ELSE sfaults + 1
                  /\ op_result' = res
                  /\ exit_code' = 0
    /\ spc' = "exited"
    /\ UNCHANGED <<script, arg_value, env_value, token, consulted, bashrc_value, responses>>
    /\ UNCHANGED <<credvars, vikunjavars, googlevars, dhcpvars, vars>>

McpInit ==
    /\ PiholeOff
    /\ LateOff
    /\ VikunjaOff
    /\ ExtOff
    /\ ProcessFresh
    /\ script = "trac_mcp_server"
    /\ spc = "startup"
    /\ env_value \in {"", "env-pass"}
    /\ bashrc_value \in {"", "bashrc-pass"}
    /\ vault_line = NoLine
    /\ command = "none"

\* Module level of server.py: TRAC_PASSWORD = get_trac_password(), the
\* environment first and the export line of ~/.bashrc after it; mcp.run().
get_trac_password ==
    /\ script = "trac_mcp_server"
    /\ spc = "startup"
    /\ token' = IF env_value # "" THEN env_value ELSE bashrc_value
    /\ consulted' = <<Src("env", env_value)>>
                    \o (IF env_value = "" THEN <<Src("bashrc", bashrc_value)>> ELSE << >>)
    /\ op_result' = IF env_value = "" /\ bashrc_value = "" THEN "missing_credential" ELSE "none"
    /\ spc' = "serving"
    /\ UNCHANGED <<script, arg_value, env_value, requests, exit_code, sfaults>>
    /\ UNCHANGED <<credvars, restvars, vikunjavars, vars>>

\* The XML-RPC calls and the answer of the tool trac_create_ticket: get_proxy
\* raises without a password; the component and then the priority are looked
\* up in the lists of the server; ticket.create comes last. Any exception
\* ends the tool with an error text.
CreateTicketRun(comp, prio, pw, o1, o2, o3) ==
    LET c == Rpc("ticket.component.getAll", o1)
        p == Rpc("ticket.priority.getAll", o2)
        t == Rpc("ticket.create", o3)
    IN  IF pw = "" THEN [rpcs |-> << >>, result |-> "error"]
        ELSE IF o1 # "ok" THEN [rpcs |-> <<c>>, result |-> "error"]
        ELSE IF comp \notin ValidComponents THEN [rpcs |-> <<c>>, result |-> "invalid_component"]
        ELSE IF o2 # "ok" THEN [rpcs |-> <<c, p>>, result |-> "error"]
        ELSE IF prio \notin ValidPriorities THEN [rpcs |-> <<c, p>>, result |-> "invalid_priority"]
        ELSE [rpcs |-> <<c, p, t>>, result |-> IF o3 = "ok" THEN "ok" ELSE "error"]

\* The tool trac_update_ticket: a component or a priority is looked up only
\* when it is given.
UpdateTicketRun(comp, prio, pw, o1, o2, o3) ==
    LET c == IF comp # "" THEN <<Rpc("ticket.component.getAll", o1)>> ELSE << >>
        p == IF prio # "" THEN <<Rpc("ticket.priority.getAll", o2)>> ELSE << >>
        t == Rpc("ticket.update", o3)
    IN  IF pw = "" THEN [rpcs |-> << >>, result |-> "error"]
        ELSE IF comp # "" /\ o1 # "ok" THEN [rpcs |-> c, result |-> "error"]
        ELSE IF comp # "" /\ comp \notin ValidComponents
             THEN [rpcs |-> c, result |-> "invalid_component"]
        ELSE IF prio # "" /\ o2 # "ok" THEN [rpcs |-> c \o p, result |-> "error"]
        ELSE IF prio # "" /\ prio \notin ValidPriorities
             THEN [rpcs |-> c \o p, result |-> "invalid_priority"]
        ELSE [rpcs |-> c \o p \o <<t>>, result |-> IF o3 = "ok" THEN "ok" ELSE "error"]

\* A tool call served by the MCP server
McpTool(tool, comp, prio, ran) ==
    /\ tool_calls' = Append(tool_calls, ToolCall(tool, comp, prio, ran.rpcs, ran.result))
    /\ requests' = requests \o RpcRequests(ran.rpcs, token, Len(ran.rpcs))
    /\ sfaults' = IF RpcFailed(ran.rpcs) THEN sfaults + 1 ELSE sfaults
    /\ UNCHANGED <<script, spc, arg_value, env_value, token, exit_code, consulted, op_result,
                   bashrc_value, responses>>
    /\ UNCHANGED <<credvars, vikunjavars, googlevars, dhcpvars, vars>>

create_ticket ==
    /\ script = "trac_mcp_server"
    /\ spc = "serving"
    /\ Len(tool_calls) < MaxItems
    /\ \E comp \in ComponentArgs, prio \in PriorityArgs, o1, o2, o3 \in RequestOutcomes :
         McpTool("trac_create_ticket", comp, prio, CreateTicketRun(comp, prio, token, o1, o2, o3))

update_ticket ==
    /\ script = "trac_mcp_server"
    /\ spc = "serving"
    /\ Len(tool_calls) < MaxItems
    /\ \E comp \in ComponentArgs \cup {""}, prio \in PriorityArgs \cup {""},
          o1, o2, o3 \in RequestOutcomes :
         McpTool("trac_update_ticket", comp, prio, UpdateTicketRun(comp, prio, token, o1, o2, o3))

TracNext ==
    \/ TracModuleLevel
    \/ create_trac_ticket_main
    \/ update_trac_ticket_main
    \/ get_trac_password
    \/ create_ticket
    \/ update_ticket

\* Every command-line script and server of the repository that is modelled
CliSpec ==
    /\ VikunjaInit \/ CredInit \/ BridgeInit \/ UnifiInit \/ TracCliInit \/ McpInit
    /\ [][VikunjaNext \/ CredNext \/ ServerNext \/ TracNext]_allvars

----------------------------------------------------------------------------
(* scripts/google_workspace_manager.py, scripts/manage_calendar.py *)

\* The OAuth scopes (the last part of their URLs)
AllScopes == {"calendar", "tasks", "gmail.modify", "drive", "contacts"}

\* SCOPES of each script
SCOPES(s) ==
    IF s = "google_workspace_manager" THEN AllScopes ELSE {"calendar", "tasks"}

GoogleScripts == {"google_workspace_manager", "manage_calendar"}

Creds(scopes, expired, refresh) ==
    [present |-> TRUE, scopes |-> scopes, expired |-> expired, refresh_token |-> refresh]

\* What token.pickle may hold
CachedCreds ==
    {NoCreds} \cup {Creds(sc, e, r) : sc \in SUBSET AllScopes, e \in BOOLEAN, r \in BOOLEAN}

\* creds.valid
Valid(c) == c.present /\ ~c.expired

\* creds.refresh(Request()): a new access token, the scopes stay
Refreshed(c) == [c EXCEPT !.expired = FALSE]

\* What the InstalledAppFlow of script s gives when the user consents
Authorized(s) == Creds(SCOPES(s), FALSE, TRUE)

CredsCall(s, cached, outcome, ret, authorized, after) ==
    [script |-> s, cached |-> cached, outcome |-> outcome, returned |-> ret,
     authorized |-> authorized, file_after |-> after]

\* The tail both get_creds share: without credentials.json the process
\* exits with 1; the flow may raise; else the new credentials are pickled
\* into token.pickle and returned.
Reauthorize(s, cached, have_file, flow_ok) ==
    IF ~have_file THEN CredsCall(s, cached, "exit1", NoCreds, FALSE, cached)
    ELSE IF ~flow_ok THEN CredsCall(s, cached, "raised", NoCreds, FALSE, cached)
    ELSE CredsCall(s, cached, "returned", Authorized(s), TRUE, Authorized(s))

\* google_workspace_manager.py get_creds
GwmGetCreds(cached, have_file, refresh_ok, flow_ok) ==
    LET s == "google_workspace_manager"
        c1 == IF cached.present /\ SCOPES(s) \subseteq cached.scopes
              THEN IF cached.expired /\ cached.refresh_token
                   THEN IF refresh_ok THEN Refreshed(cached) ELSE NoCreds
                   ELSE cached
              ELSE NoCreds
    IN  IF ~Valid(c1) THEN Reauthorize(s, cached, have_file, flow_ok)
        ELSE CredsCall(s, cached, "returned", c1, FALSE, cached)

\* manage_calendar.py get_creds
McGetCreds(cached, have_file, refresh_ok, flow_ok) ==
    LET s == "manage_calendar"
    IN  IF Valid(cached) THEN CredsCall(s, cached, "returned", cached, FALSE, cached)
        ELSE IF cached.present /\ cached.expired /\ cached.refresh_token
        THEN IF refresh_ok
             THEN CredsCall(s, cached, "returned", Refreshed(cached), FALSE, Refreshed(cached))
             ELSE CredsCall(s, cached, "raised", NoCreds, FALSE, cached)
        ELSE Reauthorize(s, cached, have_file, flow_ok)

GoogleInit ==
    /\ PiholeOff
    /\ LateOff
    /\ VikunjaOff
    /\ ProcessFresh
    /\ TracOff
    /\ DhcpOff
    /\ script = "google"
    /\ spc = "off"
    /\ env_value = ""
    /\ vault_line = NoLine
    /\ command = "none"
    /\ bashrc_value = ""
    /\ token_file \in CachedCreds
    /\ credentials_file \in BOOLEAN
    /\ creds_calls = << >>

\* One call of get_creds by a process of the script
GetCredsCall(c) ==
    /\ creds_calls' = Append(creds_calls, c)
    /\ token_file' = c.file_after
    /\ UNCHANGED <<credentials_file, svars, tracvars, dhcpvars, vars>>

gwm_get_creds ==
    /\ script = "google"
    /\ Len(creds_calls) < MaxRuns
    /\ \E refresh_ok \in BOOLEAN, flow_ok \in BOOLEAN :
         GetCredsCall(GwmGetCreds(token_file, credentials_file, refresh_ok, flow_ok))

mc_get_creds ==
    /\ script = "google"
    /\ Len(creds_calls) < MaxRuns
    /\ \E refresh_ok \in BOOLEAN, flow_ok \in BOOLEAN :
         GetCredsCall(McGetCreds(token_file, credentials_file, refresh_ok, flow_ok))

GoogleNext ==
    \/ gwm_get_creds
    \/ mc_get_creds

\* The two scripts that share scripts/token.pickle
GoogleSpec == GoogleInit /\ [][GoogleNext]_allvars

----------------------------------------------------------------------------
(* plugins/modules/dhcp_remove_lease.py *)

LeaseIps == {"10.0.7.50", "10.0.7.51"}
LeaseNames == {"test-host1", "test-host2"}
LeaseClientIds == {"01:aa", "*"}
LeaseHwaddrs == {"aa:f1", "aa:f2"}

FilterKeys == {"ip", "name", "clientid", "hwaddr"}

Lease(ip, name, clientid, hwaddr) ==
    [ip |-> ip, name |-> name, clientid |-> clientid, hwaddr |-> hwaddr]

AllLeases ==
    {Lease(a, n, c, h) : a \in LeaseIps, n \in LeaseNames, c \in LeaseClientIds, h \in LeaseHwaddrs}

\* The lease tables of a DHCP server: an address is leased at most once
LeaseTables ==
    {t \in SUBSET AllLeases : \A x, y \in t : x.ip = y.ip => x = y}

\* filters = {k: v for k, v in {...}.items() if v}: the keys given a value
Filters(p) == {k \in FilterKeys : p[k] # ""}

\* A lease that agrees with one of the filters is taken
LeaseMatchesAny(lease, p) == \E k \in Filters(p) : lease[k] = p[k]

\* all(lease.get(key) == value for key, value in filters.items())
LeaseMatches(lease, p) == \A k \in Filters(p) : lease[k] = p[k]

\* The leases of a table as the list the API gives (in the order of the addresses)
RECURSIVE LeaseList(_)
LeaseList(t) ==
    IF t = {} THEN << >>
    ELSE LET first == CHOOSE x \in t : \A y \in t : y.ip = x.ip \/ x.ip = "10.0.7.50"
         IN  <<first>> \o LeaseList(t \ {first})

\* matching_leases = [lease for lease in leases if all(...)]
RECURSIVE MatchingLeases(_, _, _)
MatchingLeases(list, p, n) ==
    IF n = 0 THEN << >>
    ELSE LET rest == MatchingLeases(list, p, n - 1)
         IN  IF LeaseMatches(list[n], p) THEN Append(rest, list[n]) ELSE rest

DhcpResult(kind, ch) == [kind |-> kind, changed |-> ch]

DhcpInit ==
    /\ PiholeOff
    /\ LateOff
    /\ VikunjaOff
    /\ ProcessFresh
    /\ TracOff
    /\ GoogleOff
    /\ script = "dhcp_remove_lease"
    /\ spc = "off"
    /\ env_value = ""
    /\ vault_line = NoLine
    /\ command = "none"
    /\ bashrc_value = ""
    /\ params \in [ip : LeaseIps \cup {""}, name : LeaseNames \cup {""},
                   clientid : {"01:aa", ""}, hwaddr : {"aa:f1", ""}, check_mode : BOOLEAN]
    /\ leases \in LeaseTables
    /\ leases0 = leases
    /\ dpc = "start"
    /\ matching_leases = << >>
    /\ remove_calls = << >>
    /\ dhcp_exit = DhcpResult("none", FALSE)

\* run_module up to the loop: fail_json without a filter; exit_json at once in
\* check mode; get_leases (which may raise: fail_json); the matching leases;
\* exit_json with changed False when there are none.
DhcpFetch ==
    /\ dpc = "start"
    /\ \E ok \in BOOLEAN :
         IF Filters(params) = {}
         THEN /\ dhcp_exit' = DhcpResult("fail", FALSE)
              /\ dpc' = "done"
              /\ UNCHANGED matching_leases
         ELSE IF params.check_mode
         THEN /\ dhcp_exit' = DhcpResult("exit", FALSE)
              /\ dpc' = "done"
              /\ UNCHANGED matching_leases
         ELSE IF ~ok
         THEN /\ dhcp_exit' = DhcpResult("fail", FALSE)
              /\ dpc' = "done"
              /\ UNCHANGED matching_leases
         ELSE LET list == LeaseList(leases)
                  m == MatchingLeases(list, params, Len(list))
              IN  /\ matching_leases' = m
                  /\ IF m = << >>
                     THEN /\ dhcp_exit' = DhcpResult("exit", FALSE)
                          /\ dpc' = "done"
                     ELSE /\ dpc' = "remove"
                          /\ UNCHANGED dhcp_exit
    /\ UNCHANGED <<params, leases, leases0, remove_calls>>
    /\ UNCHANGED <<svars, tracvars, googlevars, vars>>

\* One pass of `for lease in matching_leases`: remove_lease(lease["ip"]) takes
\* the lease of that address away, or raises (fail_json with changed False).
\* After the last pass exit_json with changed True.
DhcpRemove ==
    /\ dpc = "remove"
    /\ LET n == Len(remove_calls) + 1
           ip == matching_leases[n].ip
       IN  \E ok \in BOOLEAN :
             /\ remove_calls' = Append(remove_calls, ip)
             /\ IF ok
                THEN /\ leases' = {l \in leases : l.ip # ip}
                     /\ IF n = Len(matching_leases)
                        THEN /\ dhcp_exit' = DhcpResult("exit", TRUE)
                             /\ dpc' = "done"
                        ELSE UNCHANGED <<dhcp_exit, dpc>>
                ELSE /\ dhcp_exit' = DhcpResult("fail", FALSE)
                     /\ dpc' = "done"
                     /\ UNCHANGED leases
    /\ UNCHANGED <<params, leases0, matching_leases>>
    /\ UNCHANGED <<svars, tracvars, googlevars, vars>>

DhcpNext ==
    \/ DhcpFetch
    \/ DhcpRemove

DhcpSpec == DhcpInit /\ [][DhcpNext]_allvars

----------------------------------------------------------------------------
(* scripts/manage_nextcloud_contacts.py *)

ContactArgs(fn, email, tel, categories, address, url, note) ==
    [fn |-> fn, email |-> email, tel |-> tel, categories |-> categories,
     address |-> address, url |-> url, note |-> note]

\* The number of options given on one command line
Supplied(a) ==
    Cardinality({f \in {"fn", "email", "tel", "categories", "address", "url", "note"} : a[f] # ""})

\* The field values a command line can give ("" stands for an option left
\* out: the code tests `if email:`), at most MaxFields of them at a time
UpdateArgs ==
    {a \in {ContactArgs(fn, email, tel, categories, address, url, note) :
                fn \in {"", "Bob"}, email \in {"", "e1"}, tel \in {"", "t1"},
                categories \in {"", "c1"}, address \in {"", "Main", "Main St"},
                url \in {"", "u1"}, note \in {"", "n1"}} : Supplied(a) <= MaxFields}

CreateArgs == {a \in UpdateArgs : a.fn = ""}

\* One line KEY:value of a vCard
VLine(key, val) == [key |-> key, val |-> val]

\* The ADR value create_contact and update_contact write for a street
AdrValue(address) == <<"adr", address>>

\* Python's `address in adr_line` on the values of the model
AddressIn(address, adr_line) ==
    /\ adr_line[1] = "adr"
    /\ \/ address = adr_line[2]
       \/ address = "Main" /\ adr_line[2] = "Main St"

\* A defaultdict(list) in insertion order: a sequence of keys with their lists
DictHas(d, key) == \E n \in 1..Len(d) : d[n].key = key

DictGet(d, key) ==
    IF DictHas(d, key) THEN d[CHOOSE n \in 1..Len(d) : d[n].key = key].vals ELSE << >>

\* d[key] = vals
DictSet(d, key, vals) ==
    IF DictHas(d, key)
    THEN [n \in 1..Len(d) |-> IF d[n].key = key THEN [key |-> key, vals |-> vals] ELSE d[n]]
    ELSE Append(d, [key |-> key, vals |-> vals])

\* d[key].append(val)
DictAppend(d, key, val) == DictSet(d, key, Append(DictGet(d, key), val))

\* d.pop(key, ...)
DictPop(d, key) == SelectSeq(d, LAMBDA e : e.key # key)

RECURSIVE _parse_vcard_lines(_)
_parse_vcard_lines(vcard_text) ==
    IF vcard_text = << >> THEN << >>
    ELSE LET n == Len(vcard_text)
             data == _parse_vcard_lines(SubSeq(vcard_text, 1, n - 1))
         IN DictAppend(data, vcard_text[n].key, vcard_text[n].val)

RECURSIVE KeyLines(_, _)
KeyLines(key, vals) ==
    IF vals = << >> THEN << >>
    ELSE <<VLine(key, Head(vals))>> \o KeyLines(key, Tail(vals))

RECURSIVE DictLines(_)
DictLines(d) ==
    IF d = << >> THEN << >>
    ELSE KeyLines(Head(d).key, Head(d).vals) \o DictLines(Tail(d))

_construct_vcard(vcard_data) ==
    KeyLines("VERSION", IF DictHas(vcard_data, "VERSION")
                        THEN DictGet(vcard_data, "VERSION") ELSE <<"3.0">>)
        \o DictLines(DictPop(vcard_data, "VERSION"))

\* The membership test on data[key] creates the key of a defaultdict
_append_if_missing(data, key, value) ==
    IF value \in {DictGet(data, key)[n] : n \in 1..Len(DictGet(data, key))}
    THEN DictSet(data, key, DictGet(data, key))
    ELSE DictAppend(data, key, value)

OptAppend(d, key, value) == IF value # "" THEN DictAppend(d, key, value) ELSE d

OptAppendIfMissing(d, key, value) ==
    IF value # "" THEN _append_if_missing(d, key, value) ELSE d

\* The vCard create_contact uploads
CreatedCard(a) ==
    LET d0 == <<[key |-> "VERSION", vals |-> <<"3.0">>],
                [key |-> "FN", vals |-> <<"Ann">>],
                [key |-> "N", vals |-> <<"Ann;;;;">>],
                [key |-> "UID", vals |-> <<"uid1">>]>>
        d1 == OptAppend(d0, "EMAIL;TYPE=WORK", a.email)
        d2 == OptAppend(d1, "TEL;TYPE=CELL", a.tel)
        d3 == OptAppend(d2, "CATEGORIES", a.categories)
        d4 == IF a.address # "" THEN DictAppend(d3, "ADR;TYPE=HOME", AdrValue(a.address)) ELSE d3
        d5 == OptAppend(d4, "URL", a.url)
        d6 == OptAppend(d5, "NOTE", a.note)
    IN _construct_vcard(d6)

\* The vCard update_contact uploads for the stored text and the field values
UpdatedCard(text, a) ==
    LET d0 == _parse_vcard_lines(text)
        d1 == IF a.fn # "" THEN DictSet(d0, "FN", <<a.fn>>) ELSE d0
        d2 == OptAppendIfMissing(d1, "EMAIL;TYPE=INTERNET", a.email)
        d3 == OptAppendIfMissing(d2, "TEL;TYPE=HOME", a.tel)
        d4 == OptAppendIfMissing(d3, "CATEGORIES", a.categories)
        d5 == OptAppendIfMissing(d4, "URL", a.url)
        d6 == OptAppendIfMissing(d5, "NOTE", a.note)
        adrs == DictGet(d6, "ADR;TYPE=HOME") \o DictGet(d6, "ADR")
        exists == \E n \in 1..Len(adrs) : AddressIn(a.address, adrs[n])
        d7 == IF a.address # "" /\ ~exists
              THEN DictAppend(d6, "ADR;TYPE=HOME", AdrValue(a.address)) ELSE d6
    IN _construct_vcard(d7)

\* How the server answers a request
ServerAnswers == IF nc_faults < MaxFaults THEN {"ok", "error"} ELSE {"ok"}

ContactsInit ==
    /\ PiholeOff
    /\ ScriptsOff
    /\ CardAlone
    /\ CardOff

create_contact ==
    /\ nc_card = << >>
    /\ nc_result = "none"
    /\ \E a \in CreateArgs, put \in ServerAnswers :
         /\ nc_card' = IF put = "ok" THEN CreatedCard(a) ELSE nc_card
         /\ nc_result' = IF put = "ok" THEN "True" ELSE "False"
         /\ nc_faults' = IF put = "ok" THEN nc_faults ELSE nc_faults + 1
    /\ UNCHANGED <<nc_card0, nc_args, nc_calls>>
    /\ UNCHANGED <<pivars, svars, extvars, notcard>>

update_contact ==
    /\ nc_result # "none"
    /\ nc_calls < MaxRuns
    /\ nc_calls' = nc_calls + 1
    /\ \E a \in UpdateArgs, get \in ServerAnswers :
         /\ nc_args' = a
         /\ nc_card0' = nc_card
         /\ IF nc_card = << >> \/ get # "ok"
            THEN \* get_contact_href_by_uid found nothing, or the GET was refused
                 /\ nc_result' = "False"
                 /\ nc_faults' = IF nc_card = << >> THEN nc_faults ELSE nc_faults + 1
                 /\ UNCHANGED nc_card
            ELSE \E put \in ServerAnswers :
                 /\ nc_card' = IF put = "ok" THEN UpdatedCard(nc_card, a) ELSE nc_card
                 /\ nc_result' = IF put = "ok" THEN "True" ELSE "False"
                 /\ nc_faults' = IF put = "ok" THEN nc_faults ELSE nc_faults + 1
    /\ UNCHANGED <<pivars, svars, extvars, notcard>>

ContactsNext ==
    \/ create_contact
    \/ update_contact

ContactsSpec == ContactsInit /\ [][ContactsNext]_allvars

----------------------------------------------------------------------------
(* scripts/transcribe_audio.py: split_audio *)

\* The amount split_audio moves forward each time, ignoring the overlap
StrideNoOverlap(seg, ovl) == seg

\* stride = segment_time - overlap
Stride(seg, ovl) == seg - ovl

\* One ffmpeg run: -ss start -t length
Chunk(ss, t) == [ss |-> ss, t |-> t]

FfmpegOutcomes == IF ffmpeg_faults < MaxFaults THEN {"ok", "error"} ELSE {"ok"}

\* Durations, segment lengths and overlaps are whole seconds; a duration of 0
\* is what get_audio_duration returns when ffprobe fails
SplitInit ==
    /\ PiholeOff
    /\ ScriptsOff
    /\ AudioAlone
    /\ duration \in 0..MaxDuration
    /\ segment_time \in 1..MaxSegment
    /\ overlap \in 0..MaxSegment
    /\ start_time = 0
    /\ part_num = 0
    /\ chunks = << >>
    /\ apc = "entry"
    /\ ffmpeg_faults = 0

\* Lines 101-119: the duration test and the locals
SplitEntry ==
    /\ apc = "entry"
    /\ apc' = IF duration = 0 THEN "exit1" ELSE "loop"
    /\ UNCHANGED <<duration, segment_time, overlap, start_time, part_num, chunks, ffmpeg_faults>>
    /\ UNCHANGED <<pivars, svars, extvars, notaudio>>

\* Lines 121-153: one pass of the while loop
SplitChunk ==
    /\ apc = "loop"
    /\ start_time < duration
    /\ \E out \in FfmpegOutcomes :
         IF out = "ok"
         THEN /\ chunks' = Append(chunks, Chunk(start_time, segment_time))
              /\ start_time' = start_time + Stride(segment_time, overlap)
              /\ part_num' = part_num + 1
              /\ apc' = IF Stride(segment_time, overlap) <= 0 THEN "returned" ELSE "loop"
              /\ UNCHANGED ffmpeg_faults
         ELSE /\ apc' = "exit1"
              /\ ffmpeg_faults' = ffmpeg_faults + 1
              /\ UNCHANGED <<chunks, start_time, part_num>>
    /\ UNCHANGED <<duration, segment_time, overlap>>
    /\ UNCHANGED <<pivars, svars, extvars, notaudio>>

\* Lines 121, 155-156: the loop test fails and the chunks are returned
SplitReturn ==
    /\ apc = "loop"
    /\ ~(start_time < duration)
    /\ apc' = "returned"
    /\ UNCHANGED <<duration, segment_time, overlap, start_time, part_num, chunks, ffmpeg_faults>>
    /\ UNCHANGED <<pivars, svars, extvars, notaudio>>

SplitNext ==
    \/ SplitEntry
    \/ SplitChunk
    \/ SplitReturn

\* split_audio runs in one thread that nothing holds up
SplitSpec == SplitInit /\ [][SplitNext]_allvars /\ WF_allvars(SplitNext)

----------------------------------------------------------------------------
(* scripts/transcribe_audio.py: transcribe_chunk *)

\* The ways requests.post can end: an answer, requests.exceptions.Timeout,
\* another Exception, or a KeyboardInterrupt delivered to the main thread
PostOutcomes == {"answer", "timeout", "exception", "interrupt"}

\* What raise_for_status and the reading of the answer can do
AnswerOutcomes == {"ok", "raises"}

\* The main thread is no longer inside transcribe_chunk
LeftTranscribeChunk == tc_pc \in {"returned", "exiting", "unwinding"}

SpinnerInit ==
    /\ PiholeOff
    /\ ScriptsOff
    /\ SpinnerAlone
    /\ tc_pc = "entry"
    /\ done = FALSE
    /\ sp_pc = "unstarted"
    /\ frame = 0
    /\ req = "none"
    /\ tc_calls = 1
    /\ proc = "running"

\* Lines 257-268: done = False, the thread is created and started
TcStartSpinner ==
    /\ tc_pc = "entry"
    /\ done' = FALSE
    /\ sp_pc' = "test"
    /\ frame' = 0
    /\ tc_pc' = "post"
    /\ req' = "none"
    /\ UNCHANGED <<tc_calls, proc>>
    /\ UNCHANGED <<pivars, svars, extvars, notspin>>

\* Line 272: the blocking request ends
TcPost ==
    /\ tc_pc = "post"
    /\ \E out \in PostOutcomes :
         /\ req' = out
         /\ tc_pc' = CASE out = "answer" -> "set_done"
                       [] out = "timeout" -> "timeout_set_done"
                       [] out = "exception" -> "except_set_done"
                       [] out = "interrupt" -> "unwinding"
    /\ UNCHANGED <<done, sp_pc, frame, tc_calls, proc>>
    /\ UNCHANGED <<pivars, svars, extvars, notspin>>

\* Lines 273, 286, 291: done = True
TcSetDone ==
    /\ tc_pc \in {"set_done", "timeout_set_done", "except_set_done"}
    /\ done' = TRUE
    /\ tc_pc' = CASE tc_pc = "set_done" -> "join"
                  [] tc_pc = "timeout_set_done" -> "timeout_join"
                  [] tc_pc = "except_set_done" -> "except_join"
    /\ UNCHANGED <<sp_pc, frame, req, tc_calls, proc>>
    /\ UNCHANGED <<pivars, svars, extvars, notspin>>

\* Lines 274-283: spinner_thread.join() returns once the thread has ended,
\* then the answer is read
TcJoin ==
    /\ tc_pc = "join"
    /\ sp_pc = "ended"
    /\ \E a \in AnswerOutcomes :
         tc_pc' = IF a = "ok" THEN "returned" ELSE "except_set_done"
    /\ UNCHANGED <<done, sp_pc, frame, req, tc_calls, proc>>
    /\ UNCHANGED <<pivars, svars, extvars, notspin>>

\* Lines 287-289, 292-299: join, print, sys.exit(1)
TcJoinExit ==
    /\ tc_pc \in {"timeout_join", "except_join"}
    /\ sp_pc = "ended"
    /\ tc_pc' = "exiting"
    /\ UNCHANGED <<done, sp_pc, frame, req, tc_calls, proc>>
    /\ UNCHANGED <<pivars, svars, extvars, notspin>>

\* main, lines 340-350: the next chunk is transcribed
TcNextChunk ==
    /\ tc_pc = "returned"
    /\ tc_calls < MaxItems
    /\ tc_calls' = tc_calls + 1
    /\ tc_pc' = "entry"
    /\ UNCHANGED <<done, sp_pc, frame, req, proc>>
    /\ UNCHANGED <<pivars, svars, extvars, notspin>>

\* Lines 259-261: the spinner tests done
SpTest ==
    /\ sp_pc = "test"
    /\ sp_pc' = IF done THEN "final" ELSE "write"
    /\ UNCHANGED <<tc_pc, done, frame, req, tc_calls, proc>>
    /\ UNCHANGED <<pivars, svars, extvars, notspin>>

\* Lines 262-264: one character is written, then the thread sleeps
SpWrite ==
    /\ sp_pc = "write"
    /\ frame' = (frame + 1) % 4
    /\ sp_pc' = "test"
    /\ UNCHANGED <<tc_pc, done, req, tc_calls, proc>>
    /\ UNCHANGED <<pivars, svars, extvars, notspin>>

\* Line 265: "Done!" is written and the thread ends
SpFinal ==
    /\ sp_pc = "final"
    /\ sp_pc' = "ended"
    /\ UNCHANGED <<tc_pc, done, frame, req, tc_calls, proc>>
    /\ UNCHANGED <<pivars, svars, extvars, notspin>>

\* The interpreter ends the process once the main thread is through and
\* every thread that is not a daemon has ended
ProcessExit ==
    /\ proc = "running"
    /\ \/ tc_pc \in {"exiting", "unwinding"}
       \/ tc_pc = "returned" /\ tc_calls = MaxItems
    /\ sp_pc \in {"unstarted", "ended"}
    /\ proc' = "exited"
    /\ UNCHANGED <<tc_pc, done, sp_pc, frame, req, tc_calls>>
    /\ UNCHANGED <<pivars, svars, extvars, notspin>>

SpinnerNext ==
    \/ TcStartSpinner
    \/ TcPost
    \/ TcSetDone
    \/ TcJoin
    \/ TcJoinExit
    \/ TcNextChunk
    \/ SpTest
    \/ SpWrite
    \/ SpFinal
    \/ ProcessExit

\* Both threads and the interpreter keep running
SpinnerSpec ==
    /\ SpinnerInit
    /\ [][SpinnerNext]_allvars
    /\ WF_allvars(TcStartSpinner \/ TcPost \/ TcSetDone \/ TcJoin \/ TcJoinExit \/ TcNextChunk)
    /\ WF_allvars(SpTest \/ SpWrite \/ SpFinal)
    /\ WF_allvars(ProcessExit)

----------------------------------------------------------------------------
(* scripts/hass_api_manager.py, scripts/manage_nextcloud_contacts.py: the cache file *)

\* The bits open(path, 'w') gives a file it creates: 0o666 & ~umask
CreatedMode(mask) ==
    CASE mask = "022" -> "0644"
      [] mask = "027" -> "0640"
      [] mask = "077" -> "0600"

\* The mode lets a process of that other user open the file for reading
OthersMayRead(mode, who) ==
    \/ mode = "0644"
    \/ mode = "0640" /\ who = "group"

FileOutcomes == IF chmod_faults < MaxFaults THEN {"ok", "error"} ELSE {"ok"}

\* The script found no usable cache (no file, or an empty one) and has read
\* the secret from the vault
PermInit ==
    /\ PiholeOff
    /\ ScriptsOff
    /\ PermAlone
    /\ pf_script \in {"hass_api_manager", "manage_nextcloud_contacts"}
    /\ umask \in {"022", "027", "077"}
    /\ pf_mode \in {"absent", "0644", "0600"}
    /\ pf_content = ""
    /\ pf_pc = "open"
    /\ obs_who \in {"group", "other"}
    /\ obs_fd = FALSE
    /\ obs_read = "none"
    /\ chmod_faults = 0

\* open(tmp_token_file, 'w'): creates the file or empties the one there
CacheOpen ==
    /\ pf_pc = "open"
    /\ \E out \in FileOutcomes :
         IF out = "ok"
         THEN /\ pf_mode' = IF pf_mode = "absent" THEN CreatedMode(umask) ELSE pf_mode
              /\ pf_content' = ""
              /\ pf_pc' = "write"
              /\ UNCHANGED chmod_faults
         ELSE /\ pf_pc' = "gave_up"
              /\ chmod_faults' = chmod_faults + 1
              /\ UNCHANGED <<pf_mode, pf_content>>
    /\ UNCHANGED <<pf_script, umask, obs_who, obs_fd, obs_read>>
    /\ UNCHANGED <<pivars, svars, extvars, notperm>>

\* f.write(HASS_TOKEN) and the end of the with block: the secret is in the file
CacheWrite ==
    /\ pf_pc = "write"
    /\ pf_content' = "secret"
    /\ pf_pc' = "chmod"
    /\ UNCHANGED <<pf_script, umask, pf_mode, obs_who, obs_fd, obs_read, chmod_faults>>
    /\ UNCHANGED <<pivars, svars, extvars, notperm>>

\* os.chmod(tmp_token_file, 0o600)
CacheChmod ==
    /\ pf_pc = "chmod"
    /\ \E out \in FileOutcomes :
         IF out = "ok"
         THEN /\ pf_mode' = "0600"
              /\ pf_pc' = "cached"
              /\ UNCHANGED chmod_faults
         ELSE /\ pf_pc' = "gave_up"
              /\ chmod_faults' = chmod_faults + 1
              /\ UNCHANGED pf_mode
    /\ UNCHANGED <<pf_script, umask, pf_content, obs_who, obs_fd, obs_read>>
    /\ UNCHANGED <<pivars, svars, extvars, notperm>>

\* A process of another user opens the cache file for reading
ObserverOpen ==
    /\ pf_pc # "off"
    /\ ~obs_fd
    /\ OthersMayRead(pf_mode, obs_who)
    /\ obs_fd' = TRUE
    /\ UNCHANGED <<pf_script, umask, pf_mode, pf_content, pf_pc, obs_who, obs_read, chmod_faults>>
    /\ UNCHANGED <<pivars, svars, extvars, notperm>>

\* and reads what the file holds at that moment
ObserverRead ==
    /\ obs_fd
    /\ obs_read = "none"
    /\ pf_content # ""
    /\ obs_read' = pf_content
    /\ UNCHANGED <<pf_script, umask, pf_mode, pf_content, pf_pc, obs_who, obs_fd, chmod_faults>>
    /\ UNCHANGED <<pivars, svars, extvars, notperm>>

PermNext ==
    \/ CacheOpen
    \/ CacheWrite
    \/ CacheChmod
    \/ ObserverOpen
    \/ ObserverRead

PermSpec == PermInit /\ [][PermNext]_allvars

----------------------------------------------------------------------------
(* Vocabulary of the properties *)

Mutating == {"create", "update", "delete"}

AllPresent == \A n \in 1..Len(desired) : desired[n].state = "present"

DistinctKeys == \A m, n \in 1..Len(desired) : m # n => desired[m].key # desired[n].key

\* The current run is a normal run that ended in exit_json with no failed
\* call, right after a run of the same kind.
SecondCleanRun == pc = "done" /\ prev.clean /\ ~faulted /\ ~check_mode

CallsFor(n) == {j \in 1..Len(calls) : n \in calls[j].idxs}

\* The returned records that stand for desired items
ItemRecords(recs) == SelectSeq(recs, LAMBDA r : r.action # "run_gravity")

\* Section 4.3: "any(field differs, field-by-field)" over the fields each module compares
ComparedFieldDiffers(m, item, gids, cur) ==
    \/ item.comment # None /\ item.comment # cur.comment
    \/ m = "clients" /\ Range(gids) # cur.groups
    \/ m = "allow_list" /\ gids # << >> /\ Range(gids) # cur.groups
    \/ m \in {"groups", "allow_list"} /\ item.enabled # cur.enabled

\* Section 4.3: the action table
TableAction(m, item, gids, cur) ==
    CASE item.state = "absent" /\ cur.exists -> "delete"
      [] item.state = "absent" /\ ~cur.exists -> "absent_already"
      [] item.state = "present" /\ ~cur.exists -> "create"
      [] item.state = "present" /\ cur.exists /\ ComparedFieldDiffers(m, item, gids, cur) -> "update"
      [] OTHER -> "unchanged"

\* The ids of the names of a groups list that some fetched group matches
\* ignoring case, with the ids given as integers.
ResolvedIds(group_items, groups) ==
    {g.id : g \in {x \in Range(group_items) : x.isInt}}
    \cup {r.id : r \in {y \in Range(groups) :
                          \E x \in Range(group_items) :
                              ~x.isInt /\ Lower(x.name) = Lower(y.name)}}

MissingNames(group_items, groups) ==
    {x.name : x \in {y \in Range(group_items) :
                        ~y.isInt /\ \A r \in Range(groups) : Lower(r.name) # Lower(y.name)}}

----------------------------------------------------------------------------
(* C1 *)

NothingToDo ==
    /\ calls = << >>
    /\ Len(acts) = Len(desired)
    /\ \A n \in 1..Len(acts) : acts[n].action = "unchanged"
    /\ \A n \in 1..Len(ItemRecords(returned.records)) :
          ItemRecords(returned.records)[n].action = "unchanged"

\* C1 as stated: after a successful run over present items in which the
\* remote applied every request, the next run with the same desired list
\* issues no mutating call, returns changed = false and finds every item
\* unchanged.
C1_IdempotentAsStated ==
    (SecondCleanRun /\ AllPresent) => (NothingToDo /\ returned.changed = FALSE)

\* C1 amended: the same for a desired list whose keys are pairwise distinct,
\* where the returned changed is true only if run_gravity (asked for with
\* update_gravity) reported an updated list.
C1_Idempotent ==
    (SecondCleanRun /\ AllPresent /\ DistinctKeys)
        => (NothingToDo /\ returned.changed = (gravity = "updated"))

\* A second clean run over two present items, after a run that changed the remote
C1_Witness ==
    /\ SecondCleanRun /\ AllPresent /\ DistinctKeys
    /\ prev.changed
    /\ Len(desired) = 2
    /\ NothingToDo
    /\ ~returned.changed

----------------------------------------------------------------------------
(* C2 *)

\* The last call is a successful update and nothing touched the remote since
JustUpdated ==
    /\ calls # << >>
    /\ calls[Len(calls)].op = "update"
    /\ calls[Len(calls)].outcome = "ok"
    /\ calls[Len(calls)].idxs = {i - 1}

\* C2: right after an UPDATE, every optional field the desired item omits
\* (comment None, groups empty) has the remote value it had before the UPDATE.
C2_SparsePatch ==
    JustUpdated =>
        LET c == calls[Len(calls)]
            item == desired[i - 1]
        IN  /\ item.comment = None => remote[item.key].comment = c.before.comment
            /\ item.groups = << >> => remote[item.key].groups = c.before.groups

----------------------------------------------------------------------------
(* C3 *)

\* C3: for an existing item, UPDATE is chosen only because a field the caller
\* supplied differs: a comment that is not None, a groups list that is not
\* empty, an enabled that is not the default true.
C3_OmittedFieldNeverUpdates ==
    \A n \in 1..Len(acts) :
        LET a == acts[n]
            item == desired[a.idx]
        IN  (a.state = "present" /\ a.cur.exists /\ a.action = "update")
            => \/ item.comment # None /\ item.comment # a.cur.comment
               \/ item.groups # << >> /\ Range(a.gids) # a.cur.groups
               \/ item.enabled # TRUE /\ item.enabled # a.cur.enabled

----------------------------------------------------------------------------
(* C4 *)

LoopOver == pc \in {"delete", "exit", "done"} /\ ~(modname = "allow_list" /\ check_mode)

\* C4: every item the reconciler has processed got exactly one action, the one
\* the table of section 4.3 gives for the item's state and the current remote
\* item found under its key; at most one mutating call is issued for it, of
\* that action's kind; once the loop is over every desired item has its action.
C4_OneActionPerItem ==
    /\ \A n \in 1..Len(acts) :
          LET a == acts[n]
          IN  /\ a.idx = n
              /\ a.action = TableAction(modname, desired[n], a.gids, a.cur)
              /\ Cardinality(CallsFor(n)) <= 1
              /\ \A j \in CallsFor(n) :
                    /\ a.action \in Mutating
                    /\ \/ calls[j].op = a.action
                       \/ calls[j].op = "batch_delete" /\ a.action = "delete"
              /\ (a.action \in {"create", "update"} /\ ~check_mode) => CallsFor(n) # {}
    /\ LoopOver => Len(acts) = Len(desired)

\* A finished run that took two different actions, each with its call
C4_Witness ==
    /\ pc = "done"
    /\ Len(acts) = 2
    /\ acts[1].action = "update"
    /\ acts[2].action = "delete"
    /\ Len(calls) = 2

----------------------------------------------------------------------------
(* C5 *)

\* C5: a run that ends in exit_json returns exactly one record for each
\* desired item, carrying the item's key.
C5_OneRecordPerItem ==
    returned.kind = "exit" =>
        LET recs == ItemRecords(returned.records)
        IN  /\ Len(recs) = Len(desired)
            /\ \A k \in Keys :
                  Cardinality({n \in 1..Len(recs) : recs[n].key = k})
                      = Cardinality({n \in 1..Len(desired) : desired[n].key = k})

----------------------------------------------------------------------------
(* C6 *)

\* The item's action changes the remote and no call issued for it failed
Acted(n) ==
    /\ acts[n].action \in Mutating
    /\ \A j \in CallsFor(n) : ~Failed(calls[j].outcome)

\* C6: whatever way a run ends, the changed it returns is true if some
\* item's action was a create, an update or a delete.
C6_ChangedIfAnyAction ==
    (returned.kind # "none" /\ \E n \in 1..Len(acts) : Acted(n)) => returned.changed

----------------------------------------------------------------------------
(* C7 *)

\* C7: an absent item whose key the remote does not hold gets the
\* absent_already outcome and no call; changed is true only through the other
\* items (or run_gravity), and a run that ends in exit_json returns exactly
\* the changed the other items determine.
C7_AbsentIsAbsent ==
    /\ \A n \in 1..Len(acts) :
          (acts[n].state = "absent" /\ ~acts[n].inRemote)
              => /\ acts[n].action = "absent_already"
                 /\ CallsFor(n) = {}
                 /\ n \notin Range(to_delete)
    /\ changed => \/ \E n \in 1..Len(acts) : acts[n].action \in Mutating
                  \/ gravity = "updated"
    /\ returned.kind = "exit" /\ ~(modname = "allow_list" /\ check_mode)
          => returned.changed = (\/ \E n \in 1..Len(acts) : acts[n].action \in Mutating
                                 \/ gravity = "updated")

\* A finished run with an absent item for a missing key, changed by another item
C7_Witness ==
    /\ pc = "done"
    /\ returned.changed
    /\ \E n \in 1..Len(acts) :
          acts[n].state = "absent" /\ ~acts[n].inRemote /\ acts[n].action = "absent_already"
    /\ \E n \in 1..Len(acts) : acts[n].action = "create"

----------------------------------------------------------------------------
(* C8 *)

\* C8: a failure after changed was set returns changed = true and the records
\* accumulated so far.
C8_FailureCarriesResult ==
    (returned.kind = "fail" /\ changed)
        => (returned.changed /\ returned.records = records)

----------------------------------------------------------------------------
(* C9 *)

RecordActions(op) ==
    CASE op = "create" -> {"created", "added"}
      [] op = "update" -> {"updated"}
      [] OTHER -> {"deleted"}

\* C9: no returned record reports an item as added, updated or deleted when
\* the call issued for that item failed.
C9_FailureVisible ==
    \A j \in 1..Len(calls) :
        Failed(calls[j].outcome)
            => \A n \in 1..Len(returned.records) :
                  ~(/\ returned.records[n].key \in Range(calls[j].keys)
                    /\ returned.records[n].action \in RecordActions(calls[j].op))

----------------------------------------------------------------------------
(* C10 *)

\* C10: a run fails only when a remote call failed, never over a group name;
\* every create or update call carries exactly the ids of the names that
\* resolved; a present item with an unresolvable name is created when its key
\* is missing; and a warning names all the missing groups of each such item.
C10_UnresolvedGroupsNonFatal ==
    /\ pc = "failed" => faulted
    /\ \A j \in 1..Len(calls) :
          calls[j].op \in {"create", "update"}
              => \A n \in calls[j].idxs :
                    LET miss == MissingNames(desired[n].groups, existing_groups)
                    IN  /\ Range(calls[j].gids) = ResolvedIds(desired[n].groups, existing_groups)
                        /\ Len(calls[j].gids) =
                              Cardinality({g \in 1..Len(desired[n].groups) :
                                              desired[n].groups[g].name \notin miss})
    /\ \A n \in 1..Len(acts) :
          (modname # "groups" /\ desired[n].groups # << >>)
              => LET miss == MissingNames(desired[n].groups, existing_groups)
                 IN  miss # {}
                       => /\ \E w \in 1..Len(warnings) : Range(warnings[w]) = miss
                          /\ (acts[n].state = "present" /\ ~acts[n].cur.exists)
                                 => acts[n].action = "create"
                          /\ (acts[n].action \in {"create", "update"} /\ ~check_mode)
                                 => CallsFor(n) # {}

\* A finished run that created an item from a list with one unresolvable and
\* one resolvable name, with the warning
C10_Witness ==
    /\ pc = "done"
    /\ modname # "groups"
    /\ existing_groups # << >>
    /\ \E j \in 1..Len(calls) :
          /\ calls[j].op = "create"
          /\ calls[j].outcome = "ok"
          /\ calls[j].gids = <<1>>
          /\ \E n \in calls[j].idxs : MissingNames(desired[n].groups, existing_groups) = {"ghost"}
    /\ \E w \in 1..Len(warnings) : warnings[w] = <<"ghost">>

----------------------------------------------------------------------------
(* C11 *)

\* The groups / labels handed to the lookup whose name equals `name` ignoring case
GroupMatches(name) == {r \in Range(existing_groups) : Lower(r.name) = Lower(name)}
LabelMatches(name) == {r \in Range(existing_labels) : Lower(r.title) = Lower(name)}

\* C11: map_groups_to_ids gives, for every desired group name that some
\* fetched group matches ignoring letter case, the id of such a group, gives
\* no id that is neither written as an integer nor the id of a matching group,
\* and warns about a name only when no fetched group matches it ignoring
\* case; the label lookup of create_task answers with the id of a label whose
\* title matches ignoring case whenever there is one, and creates a label
\* only for a name that no fetched label matches.
C11_CaseInsensitiveResolution ==
    /\ \A w \in 1..Len(warnings) : \A nm \in Range(warnings[w]) : GroupMatches(nm) = {}
    /\ \A n \in 1..Len(acts) :
          modname \in {"clients", "allow_list"}
              => LET gs == desired[acts[n].idx].groups
                 IN  /\ \A g \in 1..Len(gs) :
                           (~gs[g].isInt /\ GroupMatches(gs[g].name) # {})
                               => \E r \in GroupMatches(gs[g].name) : r.id \in Range(acts[n].gids)
                     /\ \A g \in 1..Len(gs) :
                           (~gs[g].isInt /\ GroupMatches(gs[g].name) = {})
                               => \E w \in 1..Len(warnings) : gs[g].name \in Range(warnings[w])
                     /\ \A id \in Range(acts[n].gids) :
                           \E g \in 1..Len(gs) :
                               \/ gs[g].isInt /\ gs[g].id = id
                               \/ ~gs[g].isInt /\ \E r \in GroupMatches(gs[g].name) : r.id = id
    /\ \A k \in 1..Len(lookups) :
          /\ LabelMatches(lookups[k].name) # {}
                => /\ \E r \in LabelMatches(lookups[k].name) : r.id = lookups[k].id
                   /\ ~lookups[k].created
          /\ lookups[k].id >= 0
                => \E r \in LabelMatches(lookups[k].name) : r.id = lookups[k].id

\* A run in which 'default' was resolved to the id of the group 'Default'
\* without a warning
C11_Witness ==
    /\ modname \in {"clients", "allow_list"}
    /\ existing_groups = RemoteGroups
    /\ warnings = << >>
    /\ \E n \in 1..Len(acts) :
          /\ GName("default") \in Range(desired[acts[n].idx].groups)
          /\ 0 \in Range(acts[n].gids)

\* A create_task in which the label 'test' was resolved to the id of the
\* only label, 'Test', and no label was created
C11_LabelWitness ==
    /\ script = "create_vikunja_task"
    /\ existing_labels = << Label("Test", 1) >>
    /\ \E k \in 1..Len(lookups) : lookups[k] = [name |-> "test", id |-> 1, created |-> FALSE]
    /\ \A r \in 1..Len(requests) : requests[r].op # "create_label"

----------------------------------------------------------------------------
(* C12 *)

\* The lists that hold the elements of s in another order (s itself included)
Reorderings(s) ==
    {t \in [1..Len(s) -> Range(s)] :
        \E f \in [1..Len(s) -> 1..Len(s)] :
            /\ \A a, b \in 1..Len(s) : f[a] = f[b] => a = b
            /\ \A a \in 1..Len(s) : t[a] = s[f[a]]}

\* The branch the loop body takes for item `item` of the run's module,
\* compared with the remote item `cur`
DecisionFor(item, cur, marked) ==
    LET gids == map_groups_to_ids(item.groups, existing_groups).ids
    IN  IF modname = "allow_list"
        THEN ListAction(item, gids, cur)
        ELSE SnapshotAction(modname, item,
                            IF modname = "clients" THEN gids ELSE << >>, cur, marked)

\* C12: for every item a run has processed, the same item with its groups
\* written in any other order is given the same action against the same
\* remote item; in particular an item left unchanged is left unchanged
\* under every reordering of its groups.
C12_GroupOrderIrrelevant ==
    \A n \in 1..Len(acts) :
        LET item == desired[acts[n].idx]
            marked == acts[n].action = "delete"
        IN  /\ DecisionFor(item, acts[n].cur, marked) = acts[n].action
            /\ \A gs \in Reorderings(item.groups) :
                  DecisionFor([item EXCEPT !.groups = gs], acts[n].cur, marked) = acts[n].action

\* An existing item with groups written in descending id order was left
\* unchanged against a remote item holding the same two groups
C12_Witness ==
    /\ modname \in {"clients", "allow_list"}
    /\ \E n \in 1..Len(acts) :
          /\ acts[n].action = "unchanged"
          /\ acts[n].gids = <<1, 0>>
          /\ acts[n].cur.groups = {0, 1}
          /\ Cardinality(Reorderings(desired[acts[n].idx].groups)) = 2

----------------------------------------------------------------------------
(* C13 *)

\* The desired items the run resolved to DELETE, in list order
DeleteItems == SelectSeq([n \in 1..Len(acts) |-> acts[n]], LAMBDA a : a.action = "delete")

\* The delete calls of the run, in the order issued
DeleteCalls == SelectSeq(calls, LAMBDA c : c.op \in {"delete", "batch_delete"})

\* C13: in a normal run that got past its deletions with k items resolved
\* to DELETE, clients and groups issued exactly one delete call when k >= 1: a
\* batch delete naming all k keys when k > 1, a single delete when k = 1;
\* allow_list issued k single delete calls, one per item in order; no delete
\* call is issued when k = 0; and when the delete calls succeeded each of the
\* k keys is absent remotely and has a record saying deleted.
C13_BatchDelete ==
    (pc \in {"exit", "done"} /\ ~check_mode)
        => LET k == Len(DeleteItems)
               dk == [n \in 1..k |-> DeleteItems[n].key]
           IN  /\ modname \in {"clients", "groups"}
                     => /\ Len(DeleteCalls) = (IF k >= 1 THEN 1 ELSE 0)
                        /\ k >= 1 => /\ DeleteCalls[1].keys = dk
                                     /\ DeleteCalls[1].op =
                                           (IF k > 1 THEN "batch_delete" ELSE "delete")
               /\ modname = "allow_list"
                     => /\ Len(DeleteCalls) = k
                        /\ \A n \in 1..k : /\ DeleteCalls[n].op = "delete"
                                           /\ DeleteCalls[n].keys = <<dk[n]>>
               /\ (\A n \in 1..Len(DeleteCalls) : DeleteCalls[n].outcome = "ok")
                     => \A n \in 1..k :
                           /\ ~remote[dk[n]].exists
                           /\ \E r \in 1..Len(records) :
                                 records[r] = Rec(dk[n], "deleted")
                           /\ pc = "done"
                                 => \E r \in 1..Len(returned.records) :
                                       returned.records[r] = Rec(dk[n], "deleted")

\* A finished clients / groups run that removed two existing items with
\* one batch delete
C13_Witness ==
    /\ pc = "done"
    /\ modname \in {"clients", "groups"}
    /\ Len(DeleteItems) = 2
    /\ Len(DeleteCalls) = 1
    /\ DeleteCalls[1].op = "batch_delete"
    /\ DeleteCalls[1].outcome = "ok"
    /\ Range(DeleteCalls[1].keys) = {"a", "b"}
    /\ DeleteCalls[1].before.exists
    /\ \A key \in Keys : ~remote[key].exists

\* A finished allow_list run that removed two existing lists with two calls
C13_SequentialWitness ==
    /\ pc = "done"
    /\ modname = "allow_list"
    /\ Len(DeleteCalls) = 2
    /\ DeleteCalls[1].keys # DeleteCalls[2].keys
    /\ \A n \in 1..2 : DeleteCalls[n].outcome = "ok" /\ DeleteCalls[n].before.exists
    /\ \A key \in Keys : ~remote[key].exists

----------------------------------------------------------------------------
(* C14 *)

\* The sources of each resolver, in the order explicit argument, environment
\* variable, cached tmp file, vault decryption
SourceOrder(s) ==
    IF s = "create_vikunja_task" THEN <<"arg", "env">> ELSE <<"env", "tmp", "vault">>

C14_ArgumentWitness ==
    /\ script = "create_vikunja_task"
    /\ arg_value # ""
    /\ env_value # ""
    /\ token = arg_value
    /\ Len(consulted) = 1

----------------------------------------------------------------------------
(* C15 *)

\* The process that ended just before the current one
LastEnded == history[Len(history)]

\* A process got its credential by decrypting the vault
ObtainedByVault(p) ==
    /\ p.token # ""
    /\ p.consulted[Len(p.consulted)].source = "vault"

\* C15: when the process before the current one got its secret by vault
\* decryption, the cache file it left holds exactly that secret, and the
\* current process, started without the environment variable, settles on the
\* same secret, taken from the cache file, without decrypting the vault.
C15_VaultSecretCached ==
    (history # << >> /\ ObtainedByVault(LastEnded))
        => /\ LastEnded.cache_file = LastEnded.token
           /\ (env_value = "" /\ consulted # << >>)
                 => /\ token = LastEnded.token
                    /\ consulted[Len(consulted)].source = "tmp"
                    /\ \A k \in 1..Len(consulted) : consulted[k].source # "vault"

\* The same without any failed write or request in the behaviour
C15_VaultSecretCachedNoFault == sfaults = 0 => C15_VaultSecretCached

\* A process took from the cache file the secret that the process before it
\* had decrypted from the vault
C15_CachedSecretReused ==
    /\ history # << >>
    /\ ObtainedByVault(LastEnded)
    /\ env_value = ""
    /\ token = LastEnded.token
    /\ Len(consulted) = 2
    /\ spc = "exited"

----------------------------------------------------------------------------
(* C16 *)

\* The process has looked for its credential and no source gave a value
\* (the values written in the code of unifi_api_manager.py are not a source)
NoCredential ==
    /\ consulted # << >>
    /\ \A k \in 1..Len(consulted) :
          consulted[k].source # "default" => consulted[k].value = ""

\* C16: a process whose credential sources all gave nothing has reported the
\* missing credential, has stopped with status 1, and has issued no network
\* request.
C16_NoCredentialNoRequest ==
    NoCredential
        => /\ op_result = "missing_credential"
           /\ spc = "exited"
           /\ exit_code = 1
           /\ requests = << >>

\* The part of C16 about requests alone
C16_NoRequestWithoutCredential == NoCredential => requests = << >>

\* A process without any credential that stopped with status 1 before any request
C16_StoppedWitness ==
    /\ NoCredential
    /\ spc = "exited"
    /\ exit_code = 1
    /\ requests = << >>
    /\ script \in CredScripts
    /\ Len(consulted) = 3

----------------------------------------------------------------------------
(* C17 *)

\* The outcomes the exit code convention counts as failures
FailureResults == {"missing_credential", "api_error", "not_found"}

\* C17: a script process exits with status 0 only when its operation
\* succeeded; a missing credential, an API error (non-2xx answer or XML-RPC
\* fault) or a not-found outcome makes the process exit with status 1.
C17_ExitZeroOnlyOnSuccess ==
    spc = "exited" =>
        /\ exit_code = 0 => op_result = "ok"
        /\ op_result \in FailureResults => exit_code = 1

\* The part of the convention the scripts keep: without a credential the
\* Trac, Vikunja, Home Assistant and Nextcloud scripts exit with status 1.
C17_MissingCredentialExitsOne ==
    spc = "exited" /\ op_result = "missing_credential" => exit_code = 1

\* A Trac script whose XML-RPC call failed and that exited with status 0
C17_TracFaultExitsZero ==
    /\ script \in {"create_trac_ticket", "update_trac_ticket"}
    /\ spc = "exited"
    /\ op_result = "api_error"
    /\ exit_code = 0

----------------------------------------------------------------------------
(* C18 *)

MutatingRpcs == {"ticket.create", "ticket.update"}

\* The list named `method` was fetched before position k of the operation
FetchedBefore(c, method, k) ==
    \E j \in 1..(k - 1) : c.rpcs[j].method = method /\ c.rpcs[j].outcome = "ok"

\* Operation c sent its mutating calls only after its component and its
\* priority were found in the lists of the server
Validated(c) ==
    \A k \in DOMAIN c.rpcs :
        c.rpcs[k].method \in MutatingRpcs =>
            /\ c.component # "" =>
                   /\ FetchedBefore(c, "ticket.component.getAll", k)
                   /\ c.component \in ValidComponents
            /\ c.priority # "" =>
                   /\ FetchedBefore(c, "ticket.priority.getAll", k)
                   /\ c.priority \in ValidPriorities

\* Operation c was given a value that is not in the list of the server
InvalidValue(c) ==
    \/ c.component # "" /\ c.component \notin ValidComponents
    \/ c.priority # "" /\ c.priority \notin ValidPriorities

\* C18: no ticket.create or ticket.update carrying a component or a priority
\* is sent unless the value was found in the list that
\* ticket.component.getAll() / ticket.priority.getAll() returned earlier in
\* the same operation; an invalid value ends the operation with the error
\* that lists the valid choices, and without a mutating call.
C18_ValidatedBeforeUse ==
    \A n \in DOMAIN tool_calls :
        LET c == tool_calls[n]
        IN  /\ Validated(c)
            /\ InvalidValue(c) /\ c.rpcs # << >> /\ ~RpcFailed(c.rpcs) =>
                   c.result \in {"invalid_component", "invalid_priority"}

\* The tools of the MCP server do validate
C18_McpValidates ==
    \A n \in DOMAIN tool_calls :
        LET c == tool_calls[n]
        IN  c.tool \in {"trac_create_ticket", "trac_update_ticket"} =>
                /\ Validated(c)
                /\ InvalidValue(c) /\ c.rpcs # << >> /\ ~RpcFailed(c.rpcs) =>
                       c.result \in {"invalid_component", "invalid_priority"}

\* An MCP tool call turned down for its component, and one carried out
C18_McpWitness ==
    /\ \E n \in DOMAIN tool_calls : tool_calls[n].result = "invalid_component"
    /\ \E n \in DOMAIN tool_calls :
           /\ tool_calls[n].result = "ok"
           /\ tool_calls[n].tool = "trac_update_ticket"
           /\ tool_calls[n].priority # ""

\* create_trac_ticket.py sent ticket.create with a component Trac does not have
C18_UnvalidatedCreate ==
    \E n \in DOMAIN tool_calls :
        /\ tool_calls[n].tool = "create_trac_ticket"
        /\ tool_calls[n].component \notin ValidComponents
        /\ tool_calls[n].rpcs = <<Rpc("ticket.create", "ok")>>

----------------------------------------------------------------------------
(* C19 *)

\* The cache file held credentials that lack a scope the script requires
StaleScopes(c) == c.cached.present /\ ~(SCOPES(c.script) \subseteq c.cached.scopes)

\* Call c of get_creds kept the rule of the scopes
ScopesKept(c) ==
    c.outcome = "returned" =>
        /\ SCOPES(c.script) \subseteq c.returned.scopes
        /\ StaleScopes(c) =>
               /\ c.authorized
               /\ c.returned = Authorized(c.script)
               /\ c.file_after = c.returned

\* C19: get_creds never returns credentials loaded from the token cache file
\* whose granted scopes do not include every required scope: such a cached
\* token is discarded, a new authorization is performed, and the cache file
\* is overwritten with the newly authorized credentials.
C19_NoStaleScopes ==
    \A n \in DOMAIN creds_calls : ScopesKept(creds_calls[n])

\* get_creds of google_workspace_manager.py keeps the rule
C19_GwmNoStaleScopes ==
    \A n \in DOMAIN creds_calls :
        creds_calls[n].script = "google_workspace_manager" => ScopesKept(creds_calls[n])

\* google_workspace_manager.py found a valid cached token with too few
\* scopes, and returned newly authorized credentials
C19_GwmWitness ==
    \E n \in DOMAIN creds_calls :
        LET c == creds_calls[n]
        IN  /\ c.script = "google_workspace_manager"
            /\ StaleScopes(c)
            /\ Valid(c.cached)
            /\ c.outcome = "returned"

\* manage_calendar.py returned the cached token although it lacks a scope
C19_StaleReturned ==
    \E n \in DOMAIN creds_calls :
        LET c == creds_calls[n]
        IN  /\ c.script = "manage_calendar"
            /\ StaleScopes(c)
            /\ c.outcome = "returned"
            /\ c.returned = c.cached

----------------------------------------------------------------------------
(* C20 *)

\* Lease l agrees with every filter that was supplied
MatchesEvery(l, p) ==
    /\ p.ip = "" \/ l.ip = p.ip
    /\ p.name = "" \/ l.name = p.name
    /\ p.clientid = "" \/ l.clientid = p.clientid
    /\ p.hwaddr = "" \/ l.hwaddr = p.hwaddr

\* The leases the instance no longer holds
RemovedLeases == leases0 \ leases

\* The leases of the beginning that agree with every supplied filter
Targets == {l \in leases0 : MatchesEvery(l, params)}

C20_NoMatchWitness ==
    /\ dpc = "done"
    /\ dhcp_exit = DhcpResult("exit", FALSE)
    /\ ~params.check_mode
    /\ leases0 # {}
    /\ Targets = {}
    /\ remove_calls = << >>

\* Two leases matched and both were removed
C20_TwoRemovedWitness ==
    /\ dpc = "done"
    /\ Cardinality(RemovedLeases) = 2
    /\ Len(remove_calls) = 2

----------------------------------------------------------------------------
(* C21 *)

\* The current-state lookup covering item n was made and has ended: the
\* snapshot of clients.py / groups.py, the get_list of allow_list.py
LookupEnded(n) ==
    IF modname = "allow_list" THEN n <= Len(looked) ELSE fetched.items # "none"

\* The lookup covering item n has completed: it answered with the remote state
LookupCompleted(n) ==
    IF modname = "allow_list"
    THEN n <= Len(looked) /\ looked[n] = "ok"
    ELSE fetched.items = "ok"

\* The state of desired item n in the current run; an item left as it is
\* (NOOP) has succeeded at once
ItemState(n) ==
    IF n <= Len(acts)
    THEN IF CallsFor(n) # {}
         THEN IF \E j \in CallsFor(n) : calls[j].outcome = "ok" THEN "SUCCEEDED" ELSE "FAILED"
         ELSE CASE acts[n].action = "create" -> "CREATE"
                [] acts[n].action = "update" -> "UPDATE"
                [] acts[n].action = "delete" -> "DELETE"
                [] OTHER -> "SUCCEEDED"
    ELSE IF LookupCompleted(n) THEN "CHECKED" ELSE "UNKNOWN"

StateRank(st) ==
    CASE st = "UNKNOWN" -> 0
      [] st = "CHECKED" -> 1
      [] st \in {"CREATE", "UPDATE", "DELETE"} -> 2
      [] OTHER -> 3

\* Every mutating call was issued for items that were in an action state,
\* of the call's kind
CallsFollowActions ==
    \A j \in 1..Len(calls) : \A n \in calls[j].idxs :
        /\ n <= Len(acts)
        /\ acts[n].action \in Mutating
        /\ LookupEnded(n)

\* Every mutating call was issued after the lookup covering its items completed
CallsAfterLookup ==
    \A j \in 1..Len(calls) : \A n \in calls[j].idxs : LookupCompleted(n)

\* Within a run no item goes back, and an end state is kept
ForwardStep ==
    run' = run =>
        \A n \in 1..Len(desired) :
            /\ StateRank(ItemState(n)') >= StateRank(ItemState(n))
            /\ StateRank(ItemState(n)) >= 2 =>
                   \/ ItemState(n)' = ItemState(n)
                   \/ StateRank(ItemState(n)) = 2 /\ StateRank(ItemState(n)') = 3

\* C21: every desired item moves only forward along UNKNOWN -> CHECKED ->
\* CREATE/UPDATE/DELETE/NOOP -> SUCCEEDED or FAILED: no mutating call for an
\* item is issued before the current-state lookup covering its key has
\* completed, and no item returns to an earlier state within a run.
C21_ForwardOnly ==
    /\ [](CallsFollowActions /\ CallsAfterLookup)
    /\ [][ForwardStep]_allvars

\* What the modules keep: calls only for items in an action state whose
\* lookup was made before, and no step backwards
C21_OrderKept ==
    /\ []CallsFollowActions
    /\ [][ForwardStep]_allvars

\* A finished run in which one item was updated and another one, marked
\* for deletion in the loop, was deleted after it
C21_OrderWitness ==
    /\ pc = "done"
    /\ Len(acts) = 2
    /\ ItemState(1) = "SUCCEEDED" /\ acts[1].action = "update"
    /\ ItemState(2) = "SUCCEEDED" /\ acts[2].action = "delete"
    /\ CallsAfterLookup

\* A create call issued although the fetch of the collection had failed
C21_CallAfterFailedFetch ==
    /\ modname = "clients"
    /\ fetched.items = "failed"
    /\ \E j \in 1..Len(calls) : calls[j].op = "create" /\ calls[j].before.exists

----------------------------------------------------------------------------
(* C22 *)

\* At most one mutating call was issued for each desired item, and none
\* after a call for the same item failed
NoRetry ==
    /\ \A n \in 1..Len(desired) : Cardinality(CallsFor(n)) <= 1
    /\ \A j, k \in 1..Len(calls) :
          (j < k /\ Failed(calls[j].outcome)) => calls[j].idxs \cap calls[k].idxs = {}

\* The item of failed call j is reported as failed: the run was aborted with
\* fail_json, or a record of the item says so
ReportedFailed(j) ==
    \/ pc = "failed"
    \/ \E r \in 1..Len(records) :
          records[r].key \in Range(calls[j].keys) /\ records[r].action = "failed"

\* C22: within one run at most one mutating call is issued for each desired
\* item and a failed call is never issued again; the failed item is
\* reported as failed, and the run goes on with the next item or aborts.
C22_NoRetryFailureReported ==
    /\ NoRetry
    /\ \A j \in 1..Len(calls) : Failed(calls[j].outcome) => ReportedFailed(j)

\* The part the three modules keep: no second call for an item
C22_NoRetry == NoRetry

\* A run aborted by its first item's failed call, with a second item left
C22_AbortWitness ==
    /\ pc = "failed"
    /\ Len(desired) = 2
    /\ Len(calls) = 1
    /\ Failed(calls[1].outcome)
    /\ calls[1].idxs = {1}

\* allow_list went on after a call answered with an error and finished
C22_UnreportedFailure ==
    /\ modname = "allow_list"
    /\ pc = "done"
    /\ returned.kind = "exit"
    /\ \E j \in 1..Len(calls) : calls[j].outcome = "error"

----------------------------------------------------------------------------
(* C23 *)

\* Every handled POST sent exactly one status
OneStatus == \A n \in 1..Len(posts) : Len(posts[n].statuses) = 1

\* A POST to another path was answered 404 and relayed nothing
OtherPath404 ==
    \A n \in 1..Len(posts) :
        posts[n].path # "/create-task" =>
            posts[n].statuses = <<404>> /\ posts[n].puts = << >>

\* A POST to /create-task relayed at most one PUT and was answered 200 or 500
AtMostOnePut ==
    \A n \in 1..Len(posts) :
        posts[n].path = "/create-task" =>
            /\ Len(posts[n].puts) <= 1
            /\ posts[n].statuses[1] \in {200, 500}

\* A 200 was sent only for a PUT that Vikunja accepted
OkOnlyIfAccepted ==
    \A n \in 1..Len(posts) :
        200 \in Range(posts[n].statuses) => posts[n].puts = <<"ok">>

\* Every PUT that Vikunja accepted was answered 200
AcceptedAnswersOk ==
    \A n \in 1..Len(posts) :
        posts[n].puts = <<"ok">> => posts[n].statuses = <<200>>

\* C23: every POST is answered with exactly one status; a POST to another
\* path gets 404 and relays nothing; a POST to /create-task relays at most
\* one PUT and is answered 200 if and only if Vikunja accepted that PUT,
\* 500 otherwise.
C23_OneStatusOkIffAccepted ==
    /\ OneStatus
    /\ OtherPath404
    /\ AtMostOnePut
    /\ OkOnlyIfAccepted
    /\ AcceptedAnswersOk

\* The part the handler keeps: one status, 404 without relay, at most one
\* PUT, and no 200 without an accepted PUT
C23_OkOnlyIfAccepted ==
    /\ OneStatus
    /\ OtherPath404
    /\ AtMostOnePut
    /\ OkOnlyIfAccepted

\* Both a 404 and a 200 have been sent
C23_Witness ==
    /\ Len(posts) = 2
    /\ posts[1].statuses = <<404>>
    /\ posts[2].statuses = <<200>>

\* Vikunja accepted the PUT and the client was told 500
C23_AcceptedAnswered500 ==
    \E n \in 1..Len(posts) : posts[n].puts = <<"ok">> /\ posts[n].statuses = <<500>>

----------------------------------------------------------------------------
(* C24 *)

\* The vCard keys that carry the values of one field
FieldKeys(field) ==
    CASE field = "email" -> {"EMAIL;TYPE=WORK", "EMAIL;TYPE=INTERNET"}
      [] field = "tel" -> {"TEL;TYPE=CELL", "TEL;TYPE=HOME"}
      [] field = "categories" -> {"CATEGORIES"}
      [] field = "url" -> {"URL"}
      [] field = "note" -> {"NOTE"}
      [] field = "address" -> {"ADR;TYPE=HOME", "ADR"}

\* How often the value occurs among the lines of the field
Occurrences(card, keys, val) ==
    Cardinality({n \in 1..Len(card) : card[n].key \in keys /\ card[n].val = val})

\* The last operation was an update_contact call that succeeded
UpdateSucceeded == nc_args # << >> /\ nc_result = "True"

\* Every line stored before the update is still stored, as often as before
StoredKept ==
    \A n \in 1..Len(nc_card0) :
        Occurrences(nc_card, {nc_card0[n].key}, nc_card0[n].val)
            >= Occurrences(nc_card0, {nc_card0[n].key}, nc_card0[n].val)

\* Every supplied value occurs exactly once among the values of its field
SuppliedOnce ==
    /\ \A f \in {"email", "tel", "categories", "url", "note"} :
          nc_args[f] # "" => Occurrences(nc_card, FieldKeys(f), nc_args[f]) = 1
    /\ nc_args.address # "" =>
          Occurrences(nc_card, FieldKeys("address"), AdrValue(nc_args.address)) = 1

\* Applying the same update to the result gives the same vCard
SameAgain == UpdatedCard(nc_card, nc_args) = nc_card

\* C24: a successful update_contact with field values removes or alters no
\* stored value, leaves each supplied email, phone, URL, category, note and
\* address exactly once among the values of its field whichever earlier
\* create or update stored it, and applied a second time changes nothing.
C24_AppendOnce == UpdateSucceeded => (StoredKept /\ SuppliedOnce /\ SameAgain)

\* The part update_contact keeps: the same update a second time changes nothing
C24_SameAgain == UpdateSucceeded => SameAgain

\* Without --fn no stored line is lost
C24_StoredKeptWithoutFn == (UpdateSucceeded /\ nc_args.fn = "") => StoredKept

\* An email stored by create_contact and supplied again to update_contact
\* is on the contact twice
C24_EmailTwice ==
    /\ UpdateSucceeded
    /\ nc_args.email = "e1"
    /\ Occurrences(nc_card0, FieldKeys("email"), "e1") = 1
    /\ Occurrences(nc_card, FieldKeys("email"), "e1") = 2

----------------------------------------------------------------------------
(* C25 *)

\* split_audio has returned or left through sys.exit(1)
SplitEnded == apc \in {"returned", "exit1"}

\* The chunks start at 0, s, 2s, ... for s = segment_time - overlap, one for
\* every start below the duration
StartsAtMultiples ==
    LET s == segment_time - overlap IN
    /\ \A n \in 1..Len(chunks) : chunks[n].ss = (n - 1) * s
    /\ (Len(chunks) - 1) * s < duration
    /\ Len(chunks) * s >= duration

\* Every second of [0, duration) lies within a chunk
Covered ==
    \A t \in 0..(duration - 1) :
        \E n \in 1..Len(chunks) : chunks[n].ss <= t /\ t + 1 <= chunks[n].ss + chunks[n].t

\* Each chunk begins `overlap` seconds before the nominal end of the one before it
OverlapKept ==
    \A n \in 2..Len(chunks) : chunks[n].ss = chunks[n - 1].ss + chunks[n - 1].t - overlap

\* What holds of the chunks split_audio returns
ChunksRight ==
    (apc = "returned" /\ duration > 0 /\ segment_time > overlap)
        => (StartsAtMultiples /\ Covered /\ OverlapKept)

\* C25: for a duration above 0 and segment_time > overlap >= 0 split_audio
\* ends, and the chunks it returns start at 0, stride, 2*stride, ... for
\* every start below the duration, cover every instant of the audio and
\* begin `overlap` seconds before the nominal end of the chunk before; with
\* stride <= 0 it ends as well.
C25_SplitCoversAndEnds == []ChunksRight /\ <>SplitEnded

\* Three chunks with an overlap of one second were returned
C25_Witness ==
    /\ apc = "returned"
    /\ duration = 6
    /\ segment_time = 3
    /\ overlap = 1
    /\ Len(chunks) = 3

\* With stride <= 0 split_audio returned after one chunk
C25_NoStrideWitness ==
    /\ apc = "returned"
    /\ segment_time <= overlap
    /\ Len(chunks) = 1

----------------------------------------------------------------------------
(* C26 *)

\* The done flag is set and the spinner thread has ended
SpinnerStopped == done /\ sp_pc = "ended"

\* C26: whichever way the request ends (answer, timeout, other exception,
\* interruption of the main thread), the done flag is set and the spinner
\* thread has been joined when the main thread leaves transcribe_chunk or
\* the process exits, and the spinner never keeps the process from exiting.
C26_SpinnerStoppedOnEveryEnd ==
    /\ []((LeftTranscribeChunk \/ proc = "exited") => SpinnerStopped)
    /\ <>(proc = "exited")

\* The part transcribe_chunk keeps: after an answer, a timeout or another
\* Exception the spinner has been stopped and joined
C26_StoppedUnlessInterrupted ==
    (LeftTranscribeChunk /\ req # "interrupt") => SpinnerStopped

\* After an interruption of the request the process never exits
C26_InterruptedNeverExits == req = "interrupt" => (~done /\ proc = "running")

\* The main thread has left transcribe_chunk through a KeyboardInterrupt and
\* the spinner goes on writing
C26_SpinnerOutlivesRequest ==
    /\ tc_pc = "unwinding"
    /\ ~done
    /\ sp_pc = "write"
    /\ frame = 3

----------------------------------------------------------------------------
(* C27 *)

\* The cache file holds the secret
SecretCached == pf_mode # "absent" /\ pf_content = "secret"

\* C27: whenever the cache file exists and holds the secret its permission
\* bits grant access to the owner only, and no process of another user ever
\* reads the secret through the cache file.
C27_OwnerOnlyWhileSecret ==
    /\ SecretCached => pf_mode = "0600"
    /\ obs_read # "secret"

\* The part the scripts keep: once chmod has succeeded the file is owner-only
C27_OwnerOnlyAfterChmod == pf_pc = "cached" => (SecretCached /\ pf_mode = "0600")

\* With a umask of 077 and no file left behind with wider bits the secret is
\* never readable by others
C27_OwnerOnlyUnderUmask077 ==
    (umask = "077" /\ pf_mode \in {"absent", "0600"}) => (SecretCached => pf_mode = "0600")

\* The secret is in a file created with 0644 and chmod has not run yet
C27_SecretWorldReadable ==
    /\ umask = "022"
    /\ pf_pc = "chmod"
    /\ SecretCached
    /\ pf_mode = "0644"

\* A process of another user has read the secret although chmod succeeded
C27_SecretRead ==
    /\ pf_pc = "cached"
    /\ pf_mode = "0600"
    /\ obs_who = "other"
    /\ obs_read = "secret"

----------------------------------------------------------------------------
(* C28 *)

\* A present item whose key the remote does not hold: a normal run that
\* gets through reports changed
NeedsCreate ==
    \E n \in 1..Len(desired) :
        desired[n].state = "present" /\ ~remote[desired[n].key].exists

\* Only absent items, none of them held by the remote: a normal run of
\* clients or groups reports no change
OnlyAbsentMissing ==
    \A n \in 1..Len(desired) :
        desired[n].state = "absent" /\ ~remote[desired[n].key].exists

\* The run in check mode has ended in exit_json
CheckRunDone == check_mode /\ pc = "done" /\ run > 0

\* The changed value of the check-mode run is the one of a normal run
ChangedAsNormalRun ==
    /\ NeedsCreate => returned.changed
    /\ (OnlyAbsentMissing /\ modname # "allow_list") => ~returned.changed

\* C28: a module run in check mode issues no mutating call, and the changed
\* value it reports is the one a normal run against the same remote state
\* with the same arguments would report.
C28_CheckModeFaithful ==
    check_mode => (calls = << >> /\ (CheckRunDone => ChangedAsNormalRun))

\* The part every module keeps: no mutating call in check mode
C28_NoCallInCheckMode == check_mode => calls = << >>

\* clients and groups report in check mode what a normal run would report
C28_ClientsGroupsFaithful ==
    (CheckRunDone /\ modname # "allow_list") => ChangedAsNormalRun

\* A check-mode run of clients that reported the creation it would make
C28_Witness ==
    /\ CheckRunDone
    /\ modname = "clients"
    /\ NeedsCreate
    /\ returned.changed
    /\ calls = << >>

\* allow_list in check mode reported no change for a list it would add
C28_AllowListReportsNoChange ==
    /\ CheckRunDone
    /\ modname = "allow_list"
    /\ NeedsCreate
    /\ ~returned.changed

----------------------------------------------------------------------------
(* C29 *)

\* The fetch of the remote collection (get_existing_clients or, in groups.py,
\* get_existing_groups) or of the groups failed in this run
FetchFailed == fetched.items = "failed" \/ fetched.groups = "failed"

\* C29: when the call that fetches the current remote collection fails, the
\* run ends in a reported failure and issues no create, update or delete
\* call; the failed fetch is never taken for an empty remote collection.
C29_FailedFetchFailsRun == FetchFailed => (pc = "failed" /\ calls = << >>)

\* clients.py created a client the Pi-hole already holds after the fetch of
\* the clients had failed, and the run ended in exit_json
C29_CreatedAfterFailedFetch ==
    /\ modname = "clients"
    /\ fetched.items = "failed"
    /\ pc = "done"
    /\ \E j \in 1..Len(calls) : calls[j].op = "create" /\ calls[j].before.exists

\* An absent item the Pi-hole holds was skipped after the fetch had failed
C29_AbsentSkippedAfterFailedFetch ==
    /\ modname \in {"clients", "groups"}
    /\ fetched.items = "failed"
    /\ pc = "done"
    /\ calls = << >>
    /\ \E n \in 1..Len(desired) : desired[n].state = "absent" /\ remote[desired[n].key].exists

----------------------------------------------------------------------------
(* C30 *)

\* Calls j and k, j before k, are both create calls of this run for one key
\* that the remote did not hold before call j
TwoCreates(j, k) ==
    /\ j < k
    /\ calls[j].op = "create"
    /\ calls[k].op = "create"
    /\ calls[j].keys = calls[k].keys
    /\ ~calls[j].before.exists

\* C30: when two present items of one desired list carry the same key and
\* the remote does not hold the key at the start of the run, at most one
\* create call is issued for that key; the second item is reconciled
\* against what the first left behind.
C30_OneCreatePerKey == \A j, k \in 1..Len(calls) : ~TwoCreates(j, k)

\* allow_list looks every item up before it acts: with every lookup
\* answered and every call carried out, no key is created twice
C30_AllowListOneCreate ==
    (/\ modname = "allow_list"
     /\ \A n \in 1..Len(looked) : looked[n] = "ok"
     /\ \A n \in 1..Len(calls) : calls[n].outcome = "ok")
        => \A j, k \in 1..Len(calls) : ~TwoCreates(j, k)

\* allow_list added the key once and found it there for the second item
C30_AllowListWitness ==
    /\ modname = "allow_list"
    /\ pc = "done"
    /\ Len(desired) = 2
    /\ desired[1].key = desired[2].key
    /\ desired[1].state = "present" /\ desired[2].state = "present"
    /\ Len(calls) >= 1
    /\ calls[1].op = "create"
    /\ ~calls[1].before.exists
    /\ Len(acts) = 2
    /\ acts[2].action # "create"

\* clients or groups created the same key twice in a run without any fault
C30_CreatedTwice ==
    /\ modname \in {"clients", "groups"}
    /\ faults = 0
    /\ fetched.items = "ok"
    /\ Len(calls) = 2
    /\ TwoCreates(1, 2)
    /\ calls[1].outcome = "ok"

====
